---- MODULE Spec2Model ----
(***************************************************************************)
(* A model of the BRB dynamic-membership voting state machine              *)
(* (src/src/brb_membership.rs) and of the test network that drives it      *)
(* (src/tests/net.rs).                                                     *)
(*                                                                         *)
(* Public keys are small integers, ordered as the integers.  A             *)
(* signature is the pair (signing key, signed bytes); the signed bytes of  *)
(* a vote are the vote itself (bincode is injective).                      *)
(***************************************************************************)
EXTENDS Integers, FiniteSets, Sequences, TLC

\* ------------------------------------------------------------------ bounds
NProcs == 3
NFounders == 1
NKeys == 5
MaxGen == 2
MaxProposals == 3
MaxAntiEntropy == 1
MaxFaulty == 2
SyncProposals == 2
ForceProposals == 2
MaxForce == 1
MaxMisdated == 1
MaxActors == 8
MaxEquivocal == 2
NEquivocal == 2
NSplit == 3
NQuorum == 4
NCrowd == 5
MaxDeliveries == 12

SOFT_MAX_MEMBERS == 7
SyncRounds == 3

Procs == 1..NProcs
Founders == 1..NFounders
Keys == 1..NKeys
ByzFounders == 1..(NKeys - 1)

\* ------------------------------------------------------------ vote algebra
Join(a) == [kind |-> "Join", actor |-> a]
Leave(a) == [kind |-> "Leave", actor |-> a]
Reconfigs == {Join(a) : a \in Procs} \cup {Leave(a) : a \in Procs}
FaultyReconfigs == {Leave(2), Leave(3)}

Propose(r) == [tag |-> "Propose", reconfig |-> r]
Merge(vs) == [tag |-> "Merge", votes |-> vs]
SuperMajority(vs) == [tag |-> "SuperMajority", votes |-> vs]

Vote(g, b) == [gen |-> g, ballot |-> b]

\* SecretKeyShare::sign over Vote::to_bytes
Signature(key, vote) == [by |-> key, over |-> vote]

SignedVote(voter, sig, vote) == [voter |-> voter, sig |-> sig, vote |-> vote]

\* Reconfig::apply
Apply(r, members) ==
    IF r.kind = "Join" THEN members \cup {r.actor} ELSE members \ {r.actor}

\* derive(Ord) on Reconfig: every Join sorts before every Leave, then by key
ReconfigRank(r) == IF r.kind = "Join" THEN r.actor ELSE NKeys + 1 + r.actor

\* a BTreeSet<Reconfig> applied in iteration order: the Joins, then the Leaves
ApplyAll(rs, members) ==
    (members \cup {r.actor : r \in {x \in rs : x.kind = "Join"}})
        \ {r.actor : r \in {x \in rs : x.kind = "Leave"}}

\* the least element, in the order of Reconfig, of a non-empty set
LeastReconfig(D) == CHOOSE x \in D : \A y \in D : ReconfigRank(x) <= ReconfigRank(y)

\* A and B agree below m, and exactly one of them holds m
LessAt(A, B, m) ==
    IF m \in A
    THEN \E y \in B : ReconfigRank(y) > ReconfigRank(m)
    ELSE ~ \E y \in A : ReconfigRank(y) > ReconfigRank(m)

\* Ord of BTreeSet<Reconfig>: lexicographic over the sorted elements
ReconfigSetLess(A, B) ==
    A # B /\ LessAt(A, B, LeastReconfig((A \ B) \cup (B \ A)))

\* SignedVote::verify_signature
VerifySignature(sv) == sv.sig.by = sv.voter /\ sv.sig.over = sv.vote

\* SignedVote::is_super_majority_ballot
IsSuperMajorityBallot(sv) == sv.vote.ballot.tag = "SuperMajority"

RECURSIVE UnpackVotes(_)
UnpackVotes(sv) ==
    IF sv.vote.ballot.tag = "Propose"
    THEN {sv}
    ELSE {sv} \cup UNION {UnpackVotes(v) : v \in sv.vote.ballot.votes}

\* SignedVote::reconfigs: pairs <<proposing voter, reconfig>>
RECURSIVE VoteReconfigs(_)
VoteReconfigs(sv) ==
    IF sv.vote.ballot.tag = "Propose"
    THEN {<<sv.voter, sv.vote.ballot.reconfig>>}
    ELSE UNION {VoteReconfigs(v) : v \in sv.vote.ballot.votes}

\* the reconfigs of a vote with the voter dropped
ReconfigSet(sv) == {p[2] : p \in VoteReconfigs(sv)}

RECURSIVE Supersedes(_, _)
Supersedes(a, b) ==
    IF a = b
    THEN TRUE
    ELSE IF a.vote.ballot.tag = "Propose"
         THEN FALSE
         ELSE \E v \in a.vote.ballot.votes : Supersedes(v, b)

\* a variant of simplify_votes that drops no vote
SimplifyVotesKeepingAll(votes) == votes

simplify_votes(votes) ==
    {v \in votes : ~ \E other \in votes : other # v /\ Supersedes(other, v)}

\* Ballot::simplify
Simplify(b) ==
    IF b.tag = "Propose" THEN b
    ELSE IF b.tag = "Merge" THEN Merge(simplify_votes(b.votes))
    ELSE SuperMajority(simplify_votes(b.votes))

\* ------------------------------------------------------------------ errors
Ok == [kind |-> "Ok"]
InvalidSignature == [kind |-> "InvalidSignature"]
InvalidVoteInHistory(v) == [kind |-> "InvalidVoteInHistory", vote |-> v]
InvalidGeneration(g) == [kind |-> "InvalidGeneration", gen |-> g]
VoteNotForNextGeneration(vg, g, pg) ==
    [kind |-> "VoteNotForNextGeneration", vote_gen |-> vg, gen |-> g, pending_gen |-> pg]
VoteFromNonMember(voter, members) ==
    [kind |-> "VoteFromNonMember", voter |-> voter, members |-> members]
ExistingVoteIncompatibleWithNewVote(v) ==
    [kind |-> "ExistingVoteIncompatibleWithNewVote", existing_vote |-> v]
VoterChangedMind(rs) == [kind |-> "VoterChangedMind", reconfigs |-> rs]
SuperMajorityBallotIsNotSuperMajority(b, members) ==
    [kind |-> "SuperMajorityBallotIsNotSuperMajority", ballot |-> b, members |-> members]
JoinRequestForExistingMember(a, members) ==
    [kind |-> "JoinRequestForExistingMember", requester |-> a, members |-> members]
MembersAtCapacity(members) == [kind |-> "MembersAtCapacity", members |-> members]
LeaveRequestForNonMember(a, members) ==
    [kind |-> "LeaveRequestForNonMember", requester |-> a, members |-> members]

\* ------------------------------------------------------------------- State
EmptyMap == [x \in {} |-> {}]

Values(f) == {f[x] : x \in DOMAIN f}

SetMin(S) == CHOOSE x \in S : \A y \in S : x <= y

SetMax(S) == CHOOSE x \in S : \A y \in S : x >= y

RECURSIVE SortedSeq(_)
SortedSeq(S) ==
    IF S = {} THEN <<>> ELSE <<SetMin(S)>> \o SortedSeq(S \ {SetMin(S)})

\* State::new
NewState(id) ==
    [id |-> id, gen |-> 0, pending_gen |-> 0, forced_reconfigs |-> EmptyMap,
     history |-> EmptyMap, votes |-> EmptyMap]

\* State::force_join
force_join(s, actor) ==
    LET old == IF s.gen \in DOMAIN s.forced_reconfigs
               THEN s.forced_reconfigs[s.gen] ELSE {}
        new == (old \ {Leave(actor)}) \cup {Join(actor)}
    IN  [s EXCEPT !.forced_reconfigs =
            [g \in DOMAIN s.forced_reconfigs \cup {s.gen} |->
                IF g = s.gen THEN new ELSE s.forced_reconfigs[g]]]

\* State::force_leave
force_leave(s, actor) ==
    LET old == IF s.gen \in DOMAIN s.forced_reconfigs
               THEN s.forced_reconfigs[s.gen] ELSE {}
        new == (old \ {Join(actor)}) \cup {Leave(actor)}
    IN  [s EXCEPT !.forced_reconfigs =
            [g \in DOMAIN s.forced_reconfigs \cup {s.gen} |->
                IF g = s.gen THEN new ELSE s.forced_reconfigs[g]]]

\* State::count_votes: reconfig set -> number of votes carrying it
count_votes(votes) ==
    [rs \in {ReconfigSet(v) : v \in votes} |->
        Cardinality({v \in votes : ReconfigSet(v) = rs})]

\* counts.values().max().unwrap_or_default()
MostOf(count) ==
    IF DOMAIN count = {} THEN 0 ELSE SetMax({count[rs] : rs \in DOMAIN count})

MostVotes(votes) == MostOf(count_votes(votes))

\* the greatest of a non-empty set of reconfig sets
Greatest(sets) ==
    CHOOSE rs \in sets : \A other \in sets \ {rs} : ReconfigSetLess(other, rs)

\* max_by keeps the last of the equal maxima, and the map iterates in
\* ascending key order; unwrap_or_default gives the empty set
Winning(count, most) ==
    IF DOMAIN count = {} THEN {}
    ELSE Greatest({rs \in DOMAIN count : count[rs] = most})

ResolveCounted(count) == Winning(count, MostOf(count))

\* State::resolve_votes
resolve_votes(votes) == ResolveCounted(count_votes(votes))

ForcedAt(s, g) ==
    IF g \in DOMAIN s.forced_reconfigs THEN s.forced_reconfigs[g] ELSE {}

RECURSIVE MembersLoop(_, _, _, _)
\* the end of one iteration of the loop of members
MembersNext(s, keys, gen, h, decided) ==
    IF h = gen
    THEN [err |-> Ok, val |-> decided]
    ELSE MembersLoop(s, keys \ {h}, gen, decided)

\* a variant of MembersStep that applies the forced reconfigs only
MembersStepForcedOnly(s, keys, gen, h, members) ==
    IF s.history[h].vote.ballot.tag # "SuperMajority"
    THEN [err |-> InvalidVoteInHistory(s.history[h]), val |-> {}]
    ELSE MembersNext(s, keys, gen, h, ApplyAll(ForcedAt(s, h), members))

\* one iteration of the loop of members, at history key h
MembersStep(s, keys, gen, h, members) ==
    IF s.history[h].vote.ballot.tag # "SuperMajority"
    THEN [err |-> InvalidVoteInHistory(s.history[h]), val |-> {}]
    ELSE MembersNext(s, keys, gen, h,
            ApplyAll(resolve_votes(s.history[h].vote.ballot.votes),
                     ApplyAll(ForcedAt(s, h), members)))

MembersLoop(s, keys, gen, members) ==
    IF keys = {}
    THEN [err |-> InvalidGeneration(gen), val |-> {}]
    ELSE MembersStep(s, keys, gen, SetMin(keys), members)

\* State::members
members(s, gen) ==
    IF gen = 0
    THEN [err |-> Ok, val |-> ApplyAll(ForcedAt(s, 0), {})]
    ELSE MembersLoop(s, DOMAIN s.history, gen, ApplyAll(ForcedAt(s, 0), {}))

\* self.members(self.gen)? once validate_signed_vote has seen it succeed
CurrentMembers(s) == members(s, s.gen).val

SplitVote(mem, voters, most_votes) ==
    /\ 3 * Cardinality(voters) > 2 * Cardinality(mem)
    /\ 3 * (most_votes + Cardinality(mem \ voters)) <= 2 * Cardinality(mem)

\* State::is_split_vote
is_split_vote(s, votes) ==
    SplitVote(CurrentMembers(s), {v.voter : v \in votes}, MostVotes(votes))

\* State::is_super_majority
is_super_majority(s, votes) ==
    3 * MostVotes(votes) > 2 * Cardinality(CurrentMembers(s))

\* the votes with a SuperMajority ballot for the winning reconfigs
SuperMajoritiesFor(votes, winning_reconfigs) ==
    {v \in votes : ReconfigSet(v) = winning_reconfigs /\ IsSuperMajorityBallot(v)}

\* State::is_super_majority_over_super_majorities
is_super_majority_over_super_majorities(s, votes) ==
    3 * Cardinality(SuperMajoritiesFor(votes, resolve_votes(votes)))
        > 2 * Cardinality(CurrentMembers(s))

\* a variant of ValidateReconfigIn that looks at the capacity before the
\* kind of the reconfig
ValidateReconfigCapacityFirst(reconfig, mem) ==
    IF mem.err # Ok THEN mem.err
    ELSE IF Cardinality(mem.val) >= SOFT_MAX_MEMBERS
    THEN MembersAtCapacity(mem.val)
    ELSE IF reconfig.kind = "Join"
    THEN IF reconfig.actor \in mem.val
         THEN JoinRequestForExistingMember(reconfig.actor, mem.val)
         ELSE Ok
    ELSE IF reconfig.actor \notin mem.val
         THEN LeaveRequestForNonMember(reconfig.actor, mem.val)
         ELSE Ok

ValidateReconfigIn(reconfig, mem) ==
    IF mem.err # Ok THEN mem.err
    ELSE IF reconfig.kind = "Join"
    THEN IF reconfig.actor \in mem.val
         THEN JoinRequestForExistingMember(reconfig.actor, mem.val)
         ELSE IF Cardinality(mem.val) >= SOFT_MAX_MEMBERS
              THEN MembersAtCapacity(mem.val)
              ELSE Ok
    ELSE IF reconfig.actor \notin mem.val
         THEN LeaveRequestForNonMember(reconfig.actor, mem.val)
         ELSE Ok

\* State::validate_reconfig
validate_reconfig(s, reconfig) == ValidateReconfigIn(reconfig, members(s, s.gen))

\* iteration order of a BTreeSet<SignedVote>: by voter, then by signature
\* bytes (opaque: any fixed order among the votes of one voter)
FirstVote(votes) == CHOOSE v \in votes : \A w \in votes : v.voter <= w.voter

RECURSIVE validate_signed_vote(_, _)
RECURSIVE validate_vote(_, _)
RECURSIVE ValidateChildren(_, _, _)

ChildrenAfter(s, votes, gen, vote, r) ==
    IF r # Ok THEN r ELSE ValidateChildren(s, votes \ {vote}, gen)

ValidateChild(s, votes, gen, vote) ==
    IF vote.vote.gen # gen
    THEN VoteNotForNextGeneration(vote.vote.gen, gen, gen)
    ELSE ChildrenAfter(s, votes, gen, vote, validate_signed_vote(s, vote))

\* a variant of ValidateChildren that compares the generation of every
\* nested vote before it validates any
ValidateChildrenGensFirst(s, votes, gen) ==
    IF \E c \in votes : c.vote.gen # gen
    THEN VoteNotForNextGeneration(
             FirstVote({c \in votes : c.vote.gen # gen}).vote.gen, gen, gen)
    ELSE IF votes = {} THEN Ok
    ELSE ValidateChild(s, votes, gen, FirstVote(votes))

\* the for loop of the Merge arm of validate_vote
ValidateChildren(s, votes, gen) ==
    IF votes = {} THEN Ok ELSE ValidateChild(s, votes, gen, FirstVote(votes))

\* the SuperMajority arm of validate_vote (the validation of the children is
\* commented out in the source)
ValidateSuperMajority(s, ballot, mem) ==
    IF mem.err # Ok THEN mem.err
    ELSE IF ~ is_super_majority(s, UNION {UnpackVotes(v) : v \in ballot.votes})
    THEN SuperMajorityBallotIsNotSuperMajority(ballot, mem.val)
    ELSE Ok

\* State::validate_vote
validate_vote(s, vote) ==
    IF vote.ballot.tag = "Propose"
    THEN validate_reconfig(s, vote.ballot.reconfig)
    ELSE IF vote.ballot.tag = "Merge"
    THEN ValidateChildren(s, vote.ballot.votes, vote.gen)
    ELSE ValidateSuperMajority(s, vote.ballot, members(s, s.gen))

\* the reconfigs of the recorded votes and of the new vote, by proposer
RoundReconfigs(s, vote) ==
    UNION {VoteReconfigs(v) : v \in Values(s.votes)} \cup VoteReconfigs(vote)

\* "Ensure that nobody is trying to change their reconfig's"
ChangedMind(reconfigs) ==
    Cardinality({p[1] : p \in reconfigs}) # Cardinality(reconfigs)

\* a variant of ValidateSigned without the check of the generation
ValidateSignedAnyGen(s, vote, mem) ==
    IF mem.err # Ok THEN mem.err
    ELSE IF vote.voter \notin mem.val
    THEN VoteFromNonMember(vote.voter, mem.val)
    ELSE IF /\ vote.voter \in DOMAIN s.votes
            /\ ~ Supersedes(vote, s.votes[vote.voter])
            /\ ~ Supersedes(s.votes[vote.voter], vote)
    THEN ExistingVoteIncompatibleWithNewVote(s.votes[vote.voter])
    ELSE IF s.pending_gen # s.gen /\ ChangedMind(RoundReconfigs(s, vote))
    THEN VoterChangedMind(RoundReconfigs(s, vote))
    ELSE validate_vote(s, vote.vote)

\* a variant of ValidateSigned without the comparison with the voter's
\* recorded vote
ValidateSignedAnyVote(s, vote, mem) ==
    IF mem.err # Ok THEN mem.err
    ELSE IF vote.vote.gen # s.gen + 1
    THEN VoteNotForNextGeneration(vote.vote.gen, s.gen, s.pending_gen)
    ELSE IF vote.voter \notin mem.val
    THEN VoteFromNonMember(vote.voter, mem.val)
    ELSE IF s.pending_gen # s.gen /\ ChangedMind(RoundReconfigs(s, vote))
    THEN VoterChangedMind(RoundReconfigs(s, vote))
    ELSE validate_vote(s, vote.vote)

\* a variant of ValidateSigned without the check of the voter's membership
ValidateSignedAnyVoter(s, vote, mem) ==
    IF mem.err # Ok THEN mem.err
    ELSE IF vote.vote.gen # s.gen + 1
    THEN VoteNotForNextGeneration(vote.vote.gen, s.gen, s.pending_gen)
    ELSE IF /\ vote.voter \in DOMAIN s.votes
            /\ ~ Supersedes(vote, s.votes[vote.voter])
            /\ ~ Supersedes(s.votes[vote.voter], vote)
    THEN ExistingVoteIncompatibleWithNewVote(s.votes[vote.voter])
    ELSE IF s.pending_gen # s.gen /\ ChangedMind(RoundReconfigs(s, vote))
    THEN VoterChangedMind(RoundReconfigs(s, vote))
    ELSE validate_vote(s, vote.vote)

\* a variant of ValidateSigned that lets voters change their reconfigs
ValidateSignedAnyMind(s, vote, mem) ==
    IF mem.err # Ok THEN mem.err
    ELSE IF vote.vote.gen # s.gen + 1
    THEN VoteNotForNextGeneration(vote.vote.gen, s.gen, s.pending_gen)
    ELSE IF vote.voter \notin mem.val
    THEN VoteFromNonMember(vote.voter, mem.val)
    ELSE IF /\ vote.voter \in DOMAIN s.votes
            /\ ~ Supersedes(vote, s.votes[vote.voter])
            /\ ~ Supersedes(s.votes[vote.voter], vote)
    THEN ExistingVoteIncompatibleWithNewVote(s.votes[vote.voter])
    ELSE validate_vote(s, vote.vote)

\* the checks of validate_signed_vote that follow the signature's
ValidateSigned(s, vote, mem) ==
    IF mem.err # Ok THEN mem.err
    ELSE IF vote.vote.gen # s.gen + 1
    THEN VoteNotForNextGeneration(vote.vote.gen, s.gen, s.pending_gen)
    ELSE IF vote.voter \notin mem.val
    THEN VoteFromNonMember(vote.voter, mem.val)
    ELSE IF /\ vote.voter \in DOMAIN s.votes
            /\ ~ Supersedes(vote, s.votes[vote.voter])
            /\ ~ Supersedes(s.votes[vote.voter], vote)
    THEN ExistingVoteIncompatibleWithNewVote(s.votes[vote.voter])
    ELSE IF s.pending_gen # s.gen /\ ChangedMind(RoundReconfigs(s, vote))
    THEN VoterChangedMind(RoundReconfigs(s, vote))
    ELSE validate_vote(s, vote.vote)

SignatureLast(vote, valid) ==
    IF valid # Ok THEN valid
    ELSE IF ~ VerifySignature(vote) THEN InvalidSignature
    ELSE Ok

\* a variant of validate_signed_vote that verifies the signature after the
\* other checks
ValidateSignatureLast(s, vote) ==
    SignatureLast(vote, ValidateSigned(s, vote, members(s, s.gen)))

\* State::validate_signed_vote
validate_signed_vote(s, vote) ==
    IF ~ VerifySignature(vote) THEN InvalidSignature
    ELSE ValidateSigned(s, vote, members(s, s.gen))

\* State::sign_vote
sign_vote(s, vote) == SignedVote(s.id, Signature(s.id, vote), vote)

\* State::send
send(vote, dest) == [vote |-> vote, dest |-> dest]

BroadcastTo(dests, vote) == [i \in 1..Len(dests) |-> send(vote, dests[i])]

\* a variant of broadcast that leaves the sender out
BroadcastToOthers(s, vote) ==
    BroadcastTo(SortedSeq(CurrentMembers(s) \ {s.id}), vote)

\* State::broadcast
broadcast(s, vote) == BroadcastTo(SortedSeq(CurrentMembers(s)), vote)

\* a variant of LogOne that records every unpacked vote it meets
LogOneOverwriting(votes, vote) ==
    [x \in DOMAIN votes \cup {vote.voter} |->
        IF x = vote.voter THEN vote ELSE votes[x]]

\* the body of the loop of log_vote for one unpacked vote
LogOne(votes, vote) ==
    IF vote.voter \notin DOMAIN votes
    THEN [x \in DOMAIN votes \cup {vote.voter} |->
            IF x = vote.voter THEN vote ELSE votes[x]]
    ELSE IF Supersedes(vote, votes[vote.voter])
         THEN [votes EXCEPT ![vote.voter] = vote]
         ELSE votes

RECURSIVE LogAll(_, _)
LogNext(votes, unpacked, vote) == LogAll(LogOne(votes, vote), unpacked \ {vote})

LogAll(votes, unpacked) ==
    IF unpacked = {} THEN votes ELSE LogNext(votes, unpacked, FirstVote(unpacked))

\* State::log_vote
log_vote(s, vote) == [s EXCEPT !.votes = LogAll(s.votes, UnpackVotes(vote))]

Sent(s, out) == [st |-> s, out |-> out, err |-> Ok]

\* a variant of cast_vote that leaves pending_gen as it was
CastVoteKeepingPending(s, vote) ==
    Sent(log_vote(s, vote), broadcast(s, vote))

\* State::cast_vote
cast_vote(s, vote) ==
    Sent(log_vote([s EXCEPT !.pending_gen = vote.vote.gen], vote),
         broadcast(s, vote))

HistoryFrom(s, gens, to_actor) ==
    [i \in 1..Len(gens) |-> send(s.history[gens[i]], to_actor)]

VotesOf(s, voters, to_actor) ==
    [i \in 1..Len(voters) |-> send(s.votes[voters[i]], to_actor)]

\* a variant of anti_entropy that sends the votes of the round alone
AntiEntropyVotesOnly(s, from_gen, to_actor) ==
    VotesOf(s, SortedSeq(DOMAIN s.votes), to_actor)

\* a variant of anti_entropy that sends the votes of the round before the
\* history
AntiEntropyVotesFirst(s, from_gen, to_actor) ==
    VotesOf(s, SortedSeq(DOMAIN s.votes), to_actor)
        \o HistoryFrom(s, SortedSeq({g \in DOMAIN s.history : g > from_gen}), to_actor)

\* State::anti_entropy
anti_entropy(s, from_gen, to_actor) ==
    HistoryFrom(s, SortedSeq({g \in DOMAIN s.history : g > from_gen}), to_actor)
        \o VotesOf(s, SortedSeq(DOMAIN s.votes), to_actor)

\* a variant of SplitVoteWith that casts the merge vote in every case
SplitVoteAlwaysCast(s, merge_vote) == cast_vote(s, merge_vote)

SplitVoteWith(s, merge_vote) ==
    IF /\ s.id \in DOMAIN s.votes
       /\ ReconfigSet(s.votes[s.id]) = ReconfigSet(merge_vote)
    THEN Sent(s, <<>>)
    ELSE cast_vote(s, merge_vote)

\* a variant of the split-vote arm that casts no merge vote
SplitVoteArmSilent(s) == Sent(s, <<>>)

\* the split-vote arm of handle_vote (s has the vote logged)
SplitVoteArm(s) ==
    SplitVoteWith(s, sign_vote(s, Vote(s.pending_gen, Simplify(Merge(Values(s.votes))))))

\* a variant of OwnProof that signs the recorded votes as they are
OwnProofUnsimplified(s) ==
    sign_vote(s, Vote(s.pending_gen, SuperMajority(Values(s.votes))))

\* the vote stored as history[pending_gen] by a state that is a member
OwnProof(s) ==
    sign_vote(s, Vote(s.pending_gen, Simplify(SuperMajority(Values(s.votes)))))

\* a variant of Decide that forgets to clear the votes of the round
DecideKeepingVotes(s, sm_vote) ==
    [s EXCEPT !.history = [g \in DOMAIN s.history \cup {s.pending_gen} |->
                              IF g = s.pending_gen THEN sm_vote ELSE s.history[g]],
              !.gen = s.pending_gen]

\* a variant of Decide that stores the proof under the generation it leaves
DecideAtOldGen(s, sm_vote) ==
    [s EXCEPT !.history = [g \in DOMAIN s.history \cup {s.gen} |->
                              IF g = s.gen THEN sm_vote ELSE s.history[g]],
              !.votes = EmptyMap,
              !.gen = s.pending_gen]

\* history.insert(pending_gen, sm_vote); votes cleared; gen = pending_gen
Decide(s, sm_vote) ==
    [s EXCEPT !.history = [g \in DOMAIN s.history \cup {s.pending_gen} |->
                              IF g = s.pending_gen THEN sm_vote ELSE s.history[g]],
              !.votes = EmptyMap,
              !.gen = s.pending_gen]

\* the super-majority-over-super-majorities arm of handle_vote
DecisionArm(s, vote) ==
    IF s.id \in CurrentMembers(s)
    THEN Sent(Decide(s, OwnProof(s)), <<>>)
    ELSE IF is_super_majority_over_super_majorities(s, UnpackVotes(vote))
         THEN Sent(Decide(s, vote), <<>>)
         ELSE Sent(s, <<>>)

we_have_comitted_to_reconfigs_not_in_super_majority(s) ==
    \E r \in resolve_votes(UnpackVotes(s.votes[s.id])) :
        r \notin resolve_votes(Values(s.votes))

\* a variant of SuperMajorityArm that casts its ballot whatever it voted
SuperMajorityArmEager(s) == cast_vote(s, OwnProof(s))

\* a variant of SuperMajorityArm that never tells the others
SuperMajorityArmSilent(s) == Sent(s, <<>>)

\* the super-majority arm of handle_vote
SuperMajorityArm(s) ==
    IF /\ s.id \in DOMAIN s.votes
       /\ \/ we_have_comitted_to_reconfigs_not_in_super_majority(s)
          \/ IsSuperMajorityBallot(s.votes[s.id])
    THEN Sent(s, <<>>)
    ELSE cast_vote(s, OwnProof(s))

\* handle_vote once the vote is validated, logged and pending_gen is set
Arms(s, vote) ==
    IF is_split_vote(s, Values(s.votes)) THEN SplitVoteArm(s)
    ELSE IF is_super_majority_over_super_majorities(s, Values(s.votes))
    THEN DecisionArm(s, vote)
    ELSE IF is_super_majority(s, Values(s.votes)) THEN SuperMajorityArm(s)
    ELSE IF s.id \notin DOMAIN s.votes
    THEN cast_vote(s, sign_vote(s, Vote(s.pending_gen, vote.vote.ballot)))
    ELSE Sent(s, <<>>)

\* a variant of Handled that logs the vote before it looks at the verdict
HandledLoggingFirst(s, vote, valid) ==
    IF valid # Ok THEN [st |-> log_vote(s, vote), out |-> <<>>, err |-> valid]
    ELSE Arms([log_vote(s, vote) EXCEPT !.pending_gen = vote.vote.gen], vote)

\* handle_vote after validate_signed_vote has returned
Handled(s, vote, valid) ==
    IF valid # Ok THEN [st |-> s, out |-> <<>>, err |-> valid]
    ELSE Arms([log_vote(s, vote) EXCEPT !.pending_gen = vote.vote.gen], vote)

\* State::handle_vote
handle_vote(s, vote) == Handled(s, vote, validate_signed_vote(s, vote))

Proposed(s, vote, valid) ==
    IF valid # Ok THEN [st |-> s, out |-> <<>>, err |-> valid]
    ELSE cast_vote(s, vote)

ProposeVote(s, vote) == Proposed(s, vote, validate_signed_vote(s, vote))

\* State::propose
propose(s, reconfig) == ProposeVote(s, sign_vote(s, Vote(s.gen + 1, Propose(reconfig))))

\* ------------------------------------------------------- the test network
VARIABLES
    procs,      \* Net::procs: public key -> State
    packets,    \* Net::packets: source -> queue of packets
    faulty,     \* the keys of the procs with State::faulty set
    last,       \* the last call into a state and what it returned
    budget,     \* calls left of each bounded kind
    sync,       \* where the closing rounds of anti-entropy of a test stand
    reconfigs_by_gen    \* Net::reconfigs_by_gen: generation -> proposed reconfigs

vars == <<procs, packets, faulty, last, budget, sync, reconfigs_by_gen>>

Packet(source, msg) == [source |-> source, dest |-> msg.dest, vote |-> msg.vote]

\* Net::enqueue_packets, for packets of one source
Enqueue(queues, source, out) ==
    [queues EXCEPT ![source] = @ \o [i \in 1..Len(out) |-> Packet(source, out[i])]]

Call(op, p, res) ==
    [op |-> op, proc |-> p, err |-> res.err, sent |-> Len(res.out)]

RECURSIVE ForceJoinAll(_, _)
ForceJoinAll(s, actors) ==
    IF actors = {} THEN s
    ELSE ForceJoinAll(force_join(s, SetMin(actors)), actors \ {SetMin(actors)})

\* Net::with_procs, then every state trusts the founding members, as the
\* tests set the network up
Network(keys, founders) ==
    /\ procs = [p \in keys |-> ForceJoinAll(NewState(p), founders)]
    /\ packets = [p \in keys |-> <<>>]
    /\ last = [op |-> "new", proc |-> 1, err |-> Ok, sent |-> 0]
    /\ sync = [phase |-> "free", rounds |-> SyncRounds]
    /\ reconfigs_by_gen = EmptyMap

Honest == DOMAIN procs \ faulty

\* a call into the state of p returned res: the state is replaced and the
\* packets it returned are enqueued (Net::enqueue_packets)
Returned(op, p, res, queues) ==
    /\ procs' = [procs EXCEPT ![p] = res.st]
    /\ packets' = Enqueue(queues, p, res.out)
    /\ last' = Call(op, p, res)

\* the packets of an anti_entropy call of j are enqueued
Requested(j, out) ==
    /\ out # <<>>
    /\ packets' = Enqueue(packets, j, out)
    /\ last' = [op |-> "anti_entropy", proc |-> j, err |-> Ok, sent |-> Len(out)]

\* net.reconfigs_by_gen.entry(gen).or_default().insert(reconfig)
LogReconfig(log, gen, reconfig) ==
    [g \in DOMAIN log \cup {gen} |->
        IF g = gen
        THEN (IF g \in DOMAIN log THEN log[g] ELSE {}) \cup {reconfig}
        ELSE log[g]]

\* Instruction::RequestJoin / RequestLeave of the interpreter test
ProposeStep(q, reconfig) ==
    /\ sync.phase = "free"
    /\ budget.proposals > 0
    /\ procs[q].gen < MaxGen
    /\ Returned("propose", q, propose(procs[q], reconfig), packets)
    /\ budget' = IF last'.err = Ok
                 THEN [budget EXCEPT !.proposals = @ - 1]
                 ELSE budget
    /\ reconfigs_by_gen' = IF last'.err = Ok
                           THEN LogReconfig(reconfigs_by_gen, procs'[q].pending_gen, reconfig)
                           ELSE reconfigs_by_gen
    /\ UNCHANGED <<faulty, sync>>

\* Net::deliver_packet_from_source
DeliverFrom(source) ==
    /\ packets[source] # <<>>
    /\ Returned("handle_vote", Head(packets[source]).dest,
                handle_vote(procs[Head(packets[source]).dest], Head(packets[source]).vote),
                [packets EXCEPT ![source] = Tail(@)])
    /\ UNCHANGED <<faulty, budget, sync, reconfigs_by_gen>>

\* Instruction::DeliverPacketFromSource
Deliver(source) == sync.phase = "free" /\ DeliverFrom(source)

\* Instruction::AntiEntropy: j sends i what follows generation gen, which
\* need not be the gen of i
AntiEntropyStep(gen, i, j) ==
    /\ sync.phase = "free"
    /\ budget.anti_entropy > 0
    /\ Requested(j, anti_entropy(procs[j], gen, i))
    /\ budget' = [budget EXCEPT !.anti_entropy = @ - 1]
    /\ UNCHANGED <<procs, faulty, sync, reconfigs_by_gen>>

Init ==
    /\ Network(Procs, Founders)
    /\ faulty = {}
    /\ budget = [proposals |-> MaxProposals, anti_entropy |-> MaxAntiEntropy,
                 faulty |-> 0, forces |-> 0]

Next ==
    \/ \E q \in Honest, r \in Reconfigs : ProposeStep(q, r)
    \/ \E source \in DOMAIN procs : Deliver(source)
    \/ \E gen \in 0..MaxGen, i \in DOMAIN procs, j \in DOMAIN procs :
          AntiEntropyStep(gen, i, j)

Spec == Init /\ [][Next]_vars

\* ------------------------------------------- the closing rounds of a test
\* "3 rounds of anti-entropy will get everyone in sync":
\* for _ in 0..3 { drain_queued_packets; enqueue_anti_entropy(i, j) for all i, j }
NoBudget == [proposals |-> 0, anti_entropy |-> 0, faulty |-> 0, forces |-> 0]

BeginSync ==
    /\ sync.phase = "free"
    /\ sync' = [sync EXCEPT !.phase = "sync"]
    /\ last' = [op |-> "sync", proc |-> 1, err |-> Ok, sent |-> 0]
    /\ budget' = NoBudget
    /\ UNCHANGED <<procs, packets, faulty, reconfigs_by_gen>>

\* one iteration of the loop of Net::drain_queued_packets: the first key of
\* the packets map is the smallest source with a queued packet
DrainStep ==
    /\ sync.phase = "sync"
    /\ \E source \in DOMAIN packets :
          /\ packets[source] # <<>>
          /\ \A other \in DOMAIN packets : packets[other] # <<>> => source <= other
          /\ DeliverFrom(source)

RECURSIVE AntiEntropyTo(_, _, _)
\* Net::enqueue_anti_entropy(i, j) over the loop on i of a round, for i in
\* is: j sends i what follows the gen of i
AntiEntropyTo(ps, j, is) ==
    IF is = {} THEN <<>>
    ELSE anti_entropy(ps[j], ps[SetMin(is)].gen, SetMin(is))
            \o AntiEntropyTo(ps, j, is \ {SetMin(is)})

AntiEntropyRound ==
    /\ sync.phase = "sync"
    /\ \A source \in DOMAIN packets : packets[source] = <<>>
    /\ packets' = [j \in DOMAIN packets |->
                      Enqueue(packets, j, AntiEntropyTo(procs, j, DOMAIN procs))[j]]
    /\ sync' = [phase |-> IF sync.rounds = 1 THEN "done" ELSE "sync",
                rounds |-> sync.rounds - 1]
    /\ last' = [op |-> "anti_entropy", proc |-> 1, err |-> Ok, sent |-> 0]
    /\ UNCHANGED <<procs, faulty, budget, reconfigs_by_gen>>

InitSync ==
    /\ Network(Procs, Founders)
    /\ faulty = {}
    /\ budget = [proposals |-> SyncProposals, anti_entropy |-> MaxAntiEntropy,
                 faulty |-> 0, forces |-> 0]

NextSync ==
    \/ \E q \in Honest, r \in Reconfigs : ProposeStep(q, r)
    \/ \E source \in DOMAIN procs : Deliver(source)
    \/ \E gen \in 0..MaxGen, i \in DOMAIN procs, j \in DOMAIN procs :
          AntiEntropyStep(gen, i, j)
    \/ BeginSync
    \/ DrainStep
    \/ AntiEntropyRound

SpecSync == InitSync /\ [][NextSync]_vars

\* ------------------------------------------- forced changes of membership
Forced(op, p, s) ==
    /\ sync.phase = "free"
    /\ budget.forces > 0
    /\ procs' = [procs EXCEPT ![p] = s]
    /\ last' = [op |-> op, proc |-> p, err |-> Ok, sent |-> 0]
    /\ budget' = [budget EXCEPT !.forces = @ - 1]
    /\ UNCHANGED <<packets, faulty, sync, reconfigs_by_gen>>

\* a call of State::force_join on the state of p
ForceJoinStep(p, actor) == Forced("force_join", p, force_join(procs[p], actor))

\* a call of State::force_leave on the state of p
ForceLeaveStep(p, actor) == Forced("force_leave", p, force_leave(procs[p], actor))

InitForce ==
    /\ Network(Procs, Founders)
    /\ faulty = {}
    /\ budget = [proposals |-> ForceProposals, anti_entropy |-> MaxAntiEntropy,
                 faulty |-> 0, forces |-> MaxForce]

NextForce ==
    \/ \E q \in Honest, r \in Reconfigs : ProposeStep(q, r)
    \/ \E source \in DOMAIN procs : Deliver(source)
    \/ \E gen \in 0..MaxGen, i \in DOMAIN procs, j \in DOMAIN procs :
          AntiEntropyStep(gen, i, j)
    \/ \E p \in DOMAIN procs, actor \in DOMAIN procs : ForceJoinStep(p, actor)
    \/ \E p \in DOMAIN procs, actor \in DOMAIN procs : ForceLeaveStep(p, actor)

SpecForce == InitForce /\ [][NextForce]_vars

\* ------------------------------------------------------ a faulty member
\* a vote whose voter field names `voter` but which `signer` signed
\* (Net::gen_faulty_vote signs and then replaces the voter)
ForgedVote(voter, signer, vote) == SignedVote(voter, Signature(signer, vote), vote)

\* SuperMajority ballots forged in the name of every other founder, each
\* over the faulty member's own proposal of r, wrapped in a SuperMajority
\* ballot the faulty member signs itself
ForgedSuperMajority(f, r, g) ==
    LET own == ForgedVote(f, f, Vote(g, Propose(r)))
        child(v) == ForgedVote(v, f, Vote(g, SuperMajority({own})))
    IN  ForgedVote(f, f, Vote(g, SuperMajority({child(v) : v \in ByzFounders \ {f}})))

\* a SuperMajority ballot for generation g that the faulty member signs
\* itself, over proposals of r dated cg in the name of every other founder
\* and a proposal of r2 in the name of the least of them (gen_faulty_vote
\* draws the generation of every nested vote afresh)
ForgedProposals(f, r, r2, g, cg) ==
    ForgedVote(f, f, Vote(g, SuperMajority(
        {ForgedVote(v, f, Vote(cg, Propose(r))) : v \in ByzFounders \ {f}}
        \cup {ForgedVote(SetMin(ByzFounders \ {f}), f, Vote(cg, Propose(r2)))})))

\* a Merge ballot for generation g that the faulty member signs itself, over
\* its own proposal of r dated cg
ForgedMerge(f, r, g, cg) ==
    ForgedVote(f, f, Vote(g, Merge({ForgedVote(f, f, Vote(cg, Propose(r)))})))

FaultyVotes(f) ==
    UNION {{ForgedVote(SetMin(ByzFounders \ {f}), f, Vote(1, Propose(r))),
            ForgedSuperMajority(f, r, 1),
            ForgedVote(f, f, Vote(1, Merge({ForgedSuperMajority(f, r, 1)})))}
           : r \in FaultyReconfigs}

\* Net::gen_faulty_packet, enqueued
FaultySend(f, dest, vote) ==
    /\ budget.faulty > 0
    /\ packets' = Enqueue(packets, f, <<send(vote, dest)>>)
    /\ last' = [op |-> "faulty", proc |-> f, err |-> Ok, sent |-> 1]
    /\ budget' = [budget EXCEPT !.faulty = @ - 1]
    /\ UNCHANGED <<procs, faulty, sync, reconfigs_by_gen>>

InitByz ==
    /\ Network(Keys, ByzFounders)
    /\ faulty = {SetMax(ByzFounders)}
    /\ budget = [proposals |-> 0, anti_entropy |-> MaxAntiEntropy,
                 faulty |-> MaxFaulty, forces |-> 0]

NextByz ==
    \/ \E source \in DOMAIN procs : Deliver(source)
    \/ \E gen \in 0..MaxGen, i \in Honest, j \in Honest : AntiEntropyStep(gen, i, j)
    \/ \E f \in faulty, dest \in Honest : \E v \in FaultyVotes(f) : FaultySend(f, dest, v)

SpecByz == InitByz /\ [][NextByz]_vars

\* ------------------------------- a faulty member that misdates and doubles
\* ballots whose nested votes are dated differently from the ballot, or
\* carry two proposals in one name
MisdatedVotes(f) ==
    {ForgedProposals(f, Leave(2), Leave(2), 1, 2),
     ForgedProposals(f, Leave(2), Leave(3), 1, 1),
     ForgedMerge(f, Leave(2), 1, 2)}

InitMisdated ==
    /\ Network(Keys, ByzFounders)
    /\ faulty = {SetMax(ByzFounders)}
    /\ budget = [proposals |-> 0, anti_entropy |-> 0,
                 faulty |-> MaxMisdated, forces |-> 0]

NextMisdated ==
    \/ \E source \in DOMAIN procs : Deliver(source)
    \/ \E f \in faulty, dest \in Honest : \E v \in MisdatedVotes(f) : FaultySend(f, dest, v)

SpecMisdated == InitMisdated /\ [][NextMisdated]_vars

\* ------------------------------------------------- a single proposal
\* every state trusts the same members, whoever they are
InitSingle ==
    /\ \E trusted \in SUBSET Procs \ {{}} : Network(Procs, trusted)
    /\ faulty = {}
    /\ budget = [proposals |-> 1, anti_entropy |-> 0, faulty |-> 0, forces |-> 0]

\* the closing rounds begin once the proposal is made
BeginSyncProposed ==
    /\ budget.proposals = 0
    /\ BeginSync

NextSingle ==
    \/ \E q \in Honest, r \in Reconfigs : ProposeStep(q, r)
    \/ \E source \in DOMAIN procs : Deliver(source)
    \/ BeginSyncProposed
    \/ DrainStep
    \/ AntiEntropyRound

SpecSingle == InitSingle /\ [][NextSingle]_vars

\* ---------------------------------------------------- a split vote
\* 2n states of which the first n are the members everyone trusts
InitSplit ==
    /\ \E nprocs \in 1..NSplit :
          /\ procs = [p \in 1..(2 * nprocs) |-> ForceJoinAll(NewState(p), 1..nprocs)]
          /\ packets = [p \in 1..(2 * nprocs) |-> <<>>]
          /\ budget = [proposals |-> nprocs, anti_entropy |-> 0,
                       faulty |-> 0, forces |-> 0]
    /\ faulty = {}
    /\ last = [op |-> "new", proc |-> 1, err |-> Ok, sent |-> 0]
    /\ sync = [phase |-> "free", rounds |-> 1]
    /\ reconfigs_by_gen = EmptyMap

\* the member i proposes that its own joining member joins
SplitPropose(i) ==
    /\ 2 * i <= Cardinality(DOMAIN procs)
    /\ i \notin DOMAIN procs[i].votes
    /\ ProposeStep(i, Join(Cardinality(DOMAIN procs) \div 2 + i))

\* the packets are delivered, in any order, once every member has proposed
SplitDeliver(source) ==
    /\ budget.proposals = 0
    /\ sync.phase \in {"free", "drain"}
    /\ DeliverFrom(source)

\* enqueue_anti_entropy(i, j) for all i and j, once the queues are empty
SplitAntiEntropy ==
    /\ budget.proposals = 0
    /\ sync.phase = "free"
    /\ \A source \in DOMAIN packets : packets[source] = <<>>
    /\ packets' = [j \in DOMAIN packets |->
                      Enqueue(packets, j, AntiEntropyTo(procs, j, DOMAIN procs))[j]]
    /\ sync' = [phase |-> "drain", rounds |-> 0]
    /\ last' = [op |-> "anti_entropy", proc |-> 1, err |-> Ok, sent |-> 0]
    /\ UNCHANGED <<procs, faulty, budget, reconfigs_by_gen>>

NextSplit ==
    \/ \E i \in DOMAIN procs : SplitPropose(i)
    \/ \E source \in DOMAIN procs : SplitDeliver(source)
    \/ SplitAntiEntropy

SpecSplit == InitSplit /\ [][NextSplit]_vars

\* ------------------------------------- a faulty member that equivocates
EquivocalKeys == 1..NEquivocal

\* the faulty member's own proposal of r, correctly signed
OwnProposal(f, r, g) == ForgedVote(f, f, Vote(g, Propose(r)))

\* the faulty member's proposal, a Merge ballot over two proposals of its
\* own, and a Merge ballot over a proposal it signed in another member's
\* name and a proposal of its own dated one generation later
EquivocalVotes(f) ==
    {OwnProposal(f, Leave(1), 1),
     ForgedVote(f, f, Vote(1, Merge({OwnProposal(f, Leave(1), 1),
                                     OwnProposal(f, Leave(2), 1)}))),
     ForgedVote(f, f, Vote(1, Merge(
         {ForgedVote(SetMin(EquivocalKeys \ {f}), f, Vote(1, Propose(Leave(1)))),
          OwnProposal(f, Leave(1), 2)})))}

InitEquivocal ==
    /\ Network(EquivocalKeys, EquivocalKeys)
    /\ faulty = {SetMax(EquivocalKeys)}
    /\ budget = [proposals |-> 0, anti_entropy |-> 0,
                 faulty |-> MaxEquivocal, forces |-> 0]

NextEquivocal ==
    \/ \E source \in DOMAIN procs : Deliver(source)
    \/ \E f \in faulty, dest \in Honest : \E v \in EquivocalVotes(f) : FaultySend(f, dest, v)

SpecEquivocal == InitEquivocal /\ [][NextEquivocal]_vars

\* ------------------------ a faulty member that nests its own ballots
\* a SuperMajority ballot of the faulty member over a vote of its own
OwnSuperMajority(f, child, g) == ForgedVote(f, f, Vote(g, SuperMajority({child})))

\* the faulty member's proposals, each also wrapped once and twice in
\* SuperMajority ballots of its own, all correctly signed
NestedVotes(f) ==
    UNION {{OwnProposal(f, r, 1),
            OwnSuperMajority(f, OwnProposal(f, r, 1), 1),
            OwnSuperMajority(f, OwnSuperMajority(f, OwnProposal(f, r, 1), 1), 1)}
           : r \in {Leave(k) : k \in EquivocalKeys}}

NextNested ==
    \/ \E source \in DOMAIN procs : Deliver(source)
    \/ \E f \in faulty, dest \in Honest : \E v \in NestedVotes(f) : FaultySend(f, dest, v)

SpecNested == InitEquivocal /\ [][NextNested]_vars

\* ---------------------------- two proposals among several members
QuorumKeys == 1..NQuorum

InitQuorum ==
    /\ Network(QuorumKeys, QuorumKeys)
    /\ faulty = {}
    /\ budget = [proposals |-> 2, anti_entropy |-> 0, faulty |-> 0, forces |-> 0,
                 deliveries |-> MaxDeliveries]

\* the first two members propose, each that another member leaves
QuorumPropose(q) ==
    /\ q \in {1, 2}
    /\ q \notin DOMAIN procs[q].votes
    /\ procs[q].gen = 0
    /\ ProposeStep(q, Leave(NQuorum + 1 - q))

\* Net::deliver_packet_from_source, for a bounded number of packets, once
\* both proposals are made
QuorumDeliver(source) ==
    /\ budget.proposals = 0
    /\ budget.deliveries > 0
    /\ packets[source] # <<>>
    /\ Returned("handle_vote", Head(packets[source]).dest,
                handle_vote(procs[Head(packets[source]).dest], Head(packets[source]).vote),
                [packets EXCEPT ![source] = Tail(@)])
    /\ budget' = [budget EXCEPT !.deliveries = @ - 1]
    /\ UNCHANGED <<faulty, sync, reconfigs_by_gen>>

NextQuorum ==
    \/ \E q \in DOMAIN procs : QuorumPropose(q)
    \/ \E source \in DOMAIN procs : QuorumDeliver(source)

SpecQuorum == InitQuorum /\ [][NextQuorum]_vars

\* ------------------------------ a split vote, drained as the test does
\* 2n states of which the first n are the members, for n = NCrowd
InitCrowd ==
    /\ procs = [p \in 1..(2 * NCrowd) |-> ForceJoinAll(NewState(p), 1..NCrowd)]
    /\ packets = [p \in 1..(2 * NCrowd) |-> <<>>]
    /\ budget = [proposals |-> NCrowd, anti_entropy |-> 0, faulty |-> 0, forces |-> 0]
    /\ faulty = {}
    /\ last = [op |-> "new", proc |-> 1, err |-> Ok, sent |-> 0]
    /\ sync = [phase |-> "free", rounds |-> 1]
    /\ reconfigs_by_gen = EmptyMap

\* every member proposes, then net.drain_queued_packets()
NextCrowd ==
    \/ \E i \in DOMAIN procs : SplitPropose(i)
    \/ BeginSyncProposed
    \/ DrainStep

SpecCrowd == InitCrowd /\ [][NextCrowd]_vars

\* ------------------------------------------- one state, any members
Actors == 1..MaxActors

ActorReconfigs == {Join(a) : a \in Actors} \cup {Leave(a) : a \in Actors}

\* one state that was told to trust any set of actors
InitCapacity ==
    /\ \E trusted_actors \in SUBSET Actors : Network({1}, trusted_actors)
    /\ faulty = {}
    /\ budget = [proposals |-> 1, anti_entropy |-> 0, faulty |-> 0, forces |-> 0]

ValidateReconfigStep(p, reconfig) ==
    /\ last' = [op |-> "validate_reconfig", proc |-> p,
                err |-> validate_reconfig(procs[p], reconfig), sent |-> 0]
    /\ UNCHANGED <<procs, packets, faulty, budget, sync, reconfigs_by_gen>>

NextCapacity ==
    \/ \E p \in DOMAIN procs, r \in ActorReconfigs : ValidateReconfigStep(p, r)
    \/ \E p \in DOMAIN procs, r \in ActorReconfigs : ProposeStep(p, r)

SpecCapacity == InitCapacity /\ [][NextCapacity]_vars

\* ------------------------------------------------------------------ claims
\* every vote a state holds, the votes inside ballots included
AllStored(s) ==
    UNION {UnpackVotes(v) : v \in Values(s.votes) \cup Values(s.history)}

\* the greatest gen of any state of the network
MaxGenReached == SetMax({procs[p].gen : p \in DOMAIN procs})

AtMaxGen == {p \in Honest : procs[p].gen = MaxGenReached}

\* C1: any two honest states that have both decided generation g compute
\* the same member set members(g), with one member in four faulty
Agreement ==
    \A p \in Honest, q \in Honest : \A g \in 0..procs[p].gen :
        (/\ procs[q].gen >= g
         /\ members(procs[p], g).err = Ok
         /\ members(procs[q], g).err = Ok)
            => members(procs[p], g).val = members(procs[q], g).val

\* two honest states have decided generation 1 after votes of the faulty
\* member were delivered
AgreementCase ==
    \E p \in Honest, q \in Honest :
        /\ p # q
        /\ procs[p].gen >= 1 /\ procs[q].gen >= 1
        /\ budget.faulty < MaxFaulty

\* C2: once the closing rounds of anti-entropy are over, no packet is
\* queued and every honest state has no votes and gen = pending_gen
Quiescence ==
    sync.phase = "done" =>
        /\ \A source \in DOMAIN packets : packets[source] = <<>>
        /\ \A p \in Honest :
              procs[p].votes = EmptyMap /\ procs[p].gen = procs[p].pending_gen

\* the closing rounds are over after two proposals were accepted and a
\* generation was decided
QuiescenceCase ==
    /\ sync.phase = "done"
    /\ budget.proposals = 0
    /\ \E p \in Honest : procs[p].gen >= 1

\* C3: once the closing rounds of anti-entropy are over, the honest
\* states at the greatest gen reached are more than two thirds of the
\* members of that generation
Quorum ==
    sync.phase = "done" =>
        3 * Cardinality(AtMaxGen)
            > 2 * Cardinality(members(procs[SetMin(AtMaxGen)], MaxGenReached).val)

\* the closing rounds are over with a second generation decided by a
\* membership of more than one
QuorumCase ==
    /\ sync.phase = "done"
    /\ MaxGenReached = 2
    /\ Cardinality(members(procs[SetMin(AtMaxGen)], 1).val) >= 2

\* C4: a step leaves the gen of every state as it was or, in handle_vote
\* alone, raises it by one; the keys of history are 1..gen before and after
GenerationMonotonic ==
    [][\A p \in DOMAIN procs :
          /\ procs'[p].gen \in {procs[p].gen, procs[p].gen + 1}
          /\ procs'[p].gen # procs[p].gen
                => last'.op = "handle_vote" /\ last'.proc = p
          /\ DOMAIN procs[p].history = 1..procs[p].gen
          /\ DOMAIN procs'[p].history = 1..procs'[p].gen]_vars

\* a state has decided two generations and a membership was forced
GenerationCase ==
    /\ \E p \in DOMAIN procs : procs[p].gen = 2
    /\ budget.forces < MaxForce

\* C5: a step changes or removes no entry of the history of any state
HistoryAppendOnly ==
    [][\A p \in DOMAIN procs : \A g \in DOMAIN procs[p].history :
          /\ g \in DOMAIN procs'[p].history
          /\ procs'[p].history[g] = procs[p].history[g]]_vars

\* a state with an entry in its history has decided a further generation,
\* and a membership was forced
HistoryCase ==
    /\ \E p \in DOMAIN procs :
          /\ DOMAIN procs[p].history = {1, 2}
          /\ last.op = "handle_vote" /\ last.proc = p /\ last.err = Ok
    /\ budget.forces < MaxForce

\* C6: every entry of the history of an honest state carries a
\* SuperMajority ballot, and members(gen) does not fail with
\* InvalidVoteInHistory
HistorySuperMajority ==
    \A p \in Honest :
        /\ \A g \in DOMAIN procs[p].history :
              IsSuperMajorityBallot(procs[p].history[g])
        /\ members(procs[p], procs[p].gen).err.kind # "InvalidVoteInHistory"

\* an honest state that is not a member has adopted a received vote as an
\* entry of its history
HistoryAdopted ==
    \E p \in Honest :
        /\ p \notin members(procs[p], 0).val
        /\ 1 \in DOMAIN procs[p].history

\* the votes flattened from the children of a SuperMajority ballot
Flattened(sv) == UNION {UnpackVotes(v) : v \in sv.vote.ballot.votes}

\* C7: every entry history[g] of an honest state is a SuperMajority
\* ballot whose flattened votes are a super-majority of the members of
\* generation g - 1
HistoryIntegrity ==
    \A p \in Honest : \A g \in DOMAIN procs[p].history :
        /\ IsSuperMajorityBallot(procs[p].history[g])
        /\ 3 * MostVotes(Flattened(procs[p].history[g]))
              > 2 * Cardinality(members(procs[p], g - 1).val)

\* an honest member has signed an entry of its history itself
HistorySigned ==
    \E p \in Honest :
        /\ 1 \in DOMAIN procs[p].history
        /\ procs[p].history[1].voter = p

\* C8: the signature of every vote an honest state holds in votes or in
\* history, the votes inside ballots included, verifies
SignatureSoundness ==
    \A p \in Honest : \A v \in AllStored(procs[p]) : VerifySignature(v)

\* an honest state holds votes of other voters that it took from inside a
\* received SuperMajority ballot
SignatureCase ==
    \E p \in Honest : \E v \in AllStored(procs[p]) :
        /\ IsSuperMajorityBallot(v)
        /\ \E w \in v.vote.ballot.votes : w.voter \notin {p, v.voter}

\* C9: a call of propose or handle_vote that returns an error leaves
\* every state as it was
ErrorsKeepState ==
    [][(last'.op \in {"propose", "handle_vote"} /\ last'.err # Ok)
          => procs' = procs]_vars

\* handle_vote has returned an error in a state with recorded votes and a
\* forced membership
ErrorsCase ==
    /\ last.op = "handle_vote"
    /\ last.err # Ok
    /\ procs[last.proc].votes # EmptyMap
    /\ budget.forces < MaxForce

\* feed the packets of a batch to a state's handle_vote, in order
RECURSIVE Feed(_, _)
Feed(s, batch) ==
    IF batch = <<>> THEN s
    ELSE Feed(handle_vote(s, Head(batch).vote).st, Tail(batch))

\* the number of packets the handle_vote calls of a feed return
RECURSIVE FeedSent(_, _)
FeedSent(s, batch) ==
    IF batch = <<>> THEN 0
    ELSE Len(handle_vote(s, Head(batch).vote).out)
            + FeedSent(handle_vote(s, Head(batch).vote).st, Tail(batch))

\* C10 as stated: feeding the packets of A.anti_entropy(g, B) to B twice
\* leaves B as feeding them once does
AntiEntropyIdempotent ==
    \A a \in Honest : \A b \in Honest \ {a} : \A g \in 0..MaxGen :
        Feed(Feed(procs[b], anti_entropy(procs[a], g, b)),
             anti_entropy(procs[a], g, b))
            = Feed(procs[b], anti_entropy(procs[a], g, b))

\* C10 amended: feeding the packets twice leaves B as feeding them once
\* does, provided B's handle_vote calls of the first feed return no packet
AntiEntropyIdempotentWhenSilent ==
    \A a \in Honest : \A b \in Honest \ {a} : \A g \in 0..MaxGen :
        FeedSent(procs[b], anti_entropy(procs[a], g, b)) = 0
            => Feed(Feed(procs[b], anti_entropy(procs[a], g, b)),
                    anti_entropy(procs[a], g, b))
                  = Feed(procs[b], anti_entropy(procs[a], g, b))

\* a first feed that returns no packet changes B
AntiEntropyCase ==
    \E a \in Honest : \E b \in Honest \ {a} : \E g \in 0..MaxGen :
        /\ anti_entropy(procs[a], g, b) # <<>>
        /\ FeedSent(procs[b], anti_entropy(procs[a], g, b)) = 0
        /\ Feed(procs[b], anti_entropy(procs[a], g, b)) # procs[b]

\* the votes that the next delivery from some source hands to the state of p
Deliverable(p) ==
    {Head(packets[source]).vote :
        source \in {x \in DOMAIN packets :
                        packets[x] # <<>> /\ Head(packets[x]).dest = p}}

\* C11 as stated: a vote that handle_vote has just accepted, handled again,
\* returns no packet and leaves history and gen as they were
Replay ==
    \A p \in Honest : \A v \in Deliverable(p) :
        handle_vote(procs[p], v).err = Ok
            => /\ handle_vote(handle_vote(procs[p], v).st, v).out = <<>>
               /\ handle_vote(handle_vote(procs[p], v).st, v).st.history
                     = handle_vote(procs[p], v).st.history
               /\ handle_vote(handle_vote(procs[p], v).st, v).st.gen
                     = handle_vote(procs[p], v).st.gen

\* C11 amended: a vote that handle_vote has just accepted without returning
\* a packet, handled again, returns no packet and leaves history and gen as
\* they were
ReplayWhenSilent ==
    \A p \in Honest : \A v \in Deliverable(p) :
        (handle_vote(procs[p], v).err = Ok /\ handle_vote(procs[p], v).out = <<>>)
            => /\ handle_vote(handle_vote(procs[p], v).st, v).out = <<>>
               /\ handle_vote(handle_vote(procs[p], v).st, v).st.history
                     = handle_vote(procs[p], v).st.history
               /\ handle_vote(handle_vote(procs[p], v).st, v).st.gen
                     = handle_vote(procs[p], v).st.gen

\* a vote is accepted without a packet and without a decision, so that the
\* replay is validated and logged again
ReplayCase ==
    \E p \in Honest : \E v \in Deliverable(p) :
        /\ handle_vote(procs[p], v).err = Ok
        /\ handle_vote(procs[p], v).out = <<>>
        /\ handle_vote(procs[p], v).st.gen = procs[p].gen
        /\ handle_vote(handle_vote(procs[p], v).st, v).err = Ok

\* C12: in every state pending_gen is gen or gen + 1, and it is gen + 1
\* exactly when the votes map is not empty
PendingGeneration ==
    \A p \in Honest :
        /\ procs[p].pending_gen \in {procs[p].gen, procs[p].gen + 1}
        /\ procs[p].pending_gen = procs[p].gen + 1 <=> procs[p].votes # EmptyMap

\* a state that has decided a generation holds votes of the next round
PendingGenerationCase ==
    \E p \in Honest :
        /\ procs[p].gen >= 1
        /\ procs[p].votes # EmptyMap
        /\ procs[p].pending_gen = procs[p].gen + 1

\* C13: every vote recorded in votes, the nested votes that log_vote
\* recorded with it included, is for pending_gen
VotesForPendingGeneration ==
    \A p \in Honest : \A x \in DOMAIN procs[p].votes :
        procs[p].votes[x].vote.gen = procs[p].pending_gen

\* a state has recorded a ballot together with the votes nested in it
VotesForPendingGenerationCase ==
    \E p \in Honest : \E x \in DOMAIN procs[p].votes :
        \E y \in DOMAIN procs[p].votes \ {x} :
            /\ procs[p].votes[x].vote.ballot.tag = "SuperMajority"
            /\ procs[p].votes[y] \in procs[p].votes[x].vote.ballot.votes

\* the votes log_vote went through to record the votes a state holds
Logged(s) == UNION {UnpackVotes(v) : v \in Values(s.votes)}

\* C14: the vote recorded for a voter supersedes every vote of that voter
\* the state has logged in the round
RecordedSupersedes ==
    \A p \in Honest : \A x \in DOMAIN procs[p].votes :
        \A v \in Logged(procs[p]) :
            v.voter = x => Supersedes(procs[p].votes[x], v)

\* a state has logged two votes of one voter
RecordedSupersedesCase ==
    \E p \in Honest : \E x \in DOMAIN procs[p].votes :
        \E v \in Logged(procs[p]) :
            v.voter = x /\ v # procs[p].votes[x]

\* C15: a member whose recorded vote is its proposal of r1 and that calls
\* propose(r2), r2 valid and other than r1, gets
\* ExistingVoteIncompatibleWithNewVote carrying the recorded vote, sends
\* nothing and keeps its state, the recorded vote included
ProposeAgain ==
    \A q \in Honest : \A r2 \in Reconfigs :
        ( /\ members(procs[q], procs[q].gen).err = Ok
          /\ q \in CurrentMembers(procs[q])
          /\ q \in DOMAIN procs[q].votes
          /\ procs[q].votes[q].vote.ballot.tag = "Propose"
          /\ procs[q].votes[q].vote.ballot.reconfig # r2
          /\ validate_reconfig(procs[q], procs[q].votes[q].vote.ballot.reconfig) = Ok
          /\ validate_reconfig(procs[q], r2) = Ok )
        => propose(procs[q], r2)
              = [st |-> procs[q], out |-> <<>>,
                 err |-> ExistingVoteIncompatibleWithNewVote(procs[q].votes[q])]

\* a member has called propose while its own proposal was its recorded vote
ProposeAgainCase ==
    /\ last.op = "propose"
    /\ last.err.kind = "ExistingVoteIncompatibleWithNewVote"
    /\ last.err.existing_vote.voter = last.proc
    /\ last.err.existing_vote.vote.ballot.tag = "Propose"
    /\ last.proc \in CurrentMembers(procs[last.proc])

\* what C16 states of a reconfig checked against the members M, where
\* members(gen) returns them
Stated(reconfig, M) ==
    IF reconfig.kind = "Join"
    THEN IF reconfig.actor \in M THEN JoinRequestForExistingMember(reconfig.actor, M)
         ELSE IF Cardinality(M) >= 7 THEN MembersAtCapacity(M)
         ELSE Ok
    ELSE IF reconfig.actor \notin M THEN LeaveRequestForNonMember(reconfig.actor, M)
         ELSE Ok

\* C16 as stated: validate_reconfig returns what the table of Join and Leave
\* says, and propose returns the same error for an invalid reconfig
ValidateReconfig ==
    \A p \in Honest : \A r \in ActorReconfigs :
        members(procs[p], procs[p].gen).err = Ok =>
            /\ validate_reconfig(procs[p], r) = Stated(r, CurrentMembers(procs[p]))
            /\ Stated(r, CurrentMembers(procs[p])) # Ok
                  => propose(procs[p], r).err = Stated(r, CurrentMembers(procs[p]))

\* C16 amended: validate_reconfig returns what the table says, and propose
\* returns the same error for an invalid reconfig when the proposing state
\* is a member without a recorded vote of its own
ValidateReconfigOfMember ==
    \A p \in Honest : \A r \in ActorReconfigs :
        members(procs[p], procs[p].gen).err = Ok =>
            /\ validate_reconfig(procs[p], r) = Stated(r, CurrentMembers(procs[p]))
            /\ ( /\ Stated(r, CurrentMembers(procs[p])) # Ok
                 /\ p \in CurrentMembers(procs[p])
                 /\ p \notin DOMAIN procs[p].votes )
                  => propose(procs[p], r) = [st |-> procs[p], out |-> <<>>,
                                             err |-> Stated(r, CurrentMembers(procs[p]))]

\* a member among seven or more has proposed a Join that was refused for
\* the capacity
ValidateReconfigCase ==
    /\ last.op = "propose"
    /\ last.err.kind = "MembersAtCapacity"
    /\ last.proc \in last.err.members
    /\ Cardinality(last.err.members) >= 7

\* C17: handle_vote rejects a correctly signed vote that is not for gen + 1
\* with VoteNotForNextGeneration, which carries the vote's generation and the
\* state's gen and pending_gen (all three g for a proposal dated g that
\* reaches a state that has decided g), and leaves the state as it was
StaleVote ==
    \A p \in Honest : \A v \in Deliverable(p) :
        (VerifySignature(v) /\ v.vote.gen # procs[p].gen + 1)
            => handle_vote(procs[p], v)
                  = [st |-> procs[p], out |-> <<>>,
                     err |-> VoteNotForNextGeneration(
                                 v.vote.gen, procs[p].gen, procs[p].pending_gen)]

\* a proposal dated g is about to reach a state that has decided g
StaleVoteCase ==
    \E p \in Honest : \E v \in Deliverable(p) :
        /\ VerifySignature(v)
        /\ v.vote.ballot.tag = "Propose"
        /\ procs[p].gen >= 1
        /\ v.vote.gen = procs[p].gen
        /\ procs[p].pending_gen = procs[p].gen
        /\ handle_vote(procs[p], v).err.kind = "VoteNotForNextGeneration"

\* a correctly signed vote that is not for gen + 1 is about to reach a state
\* whose members(gen) fails on the history it adopted
StaleVoteAtAdopted ==
    \E p \in Honest : \E v \in Deliverable(p) :
        /\ VerifySignature(v)
        /\ v.vote.gen # procs[p].gen + 1
        /\ members(procs[p], procs[p].gen).err.kind = "InvalidVoteInHistory"
        /\ handle_vote(procs[p], v).err.kind = "InvalidVoteInHistory"

\* C18: whenever handle_vote returns VoteNotForNextGeneration, for a Merge
\* ballot with nested votes as for any vote, the gen and pending_gen it
\* reports are those of the receiving state, and the vote_gen it reports is
\* at most gen or greater than pending_gen
ReportedGenerations ==
    \A p \in Honest : \A v \in Deliverable(p) :
        handle_vote(procs[p], v).err.kind = "VoteNotForNextGeneration"
            => /\ handle_vote(procs[p], v).err.gen = procs[p].gen
               /\ handle_vote(procs[p], v).err.pending_gen = procs[p].pending_gen
               /\ \/ handle_vote(procs[p], v).err.vote_gen <= procs[p].gen
                  \/ handle_vote(procs[p], v).err.vote_gen > procs[p].pending_gen

\* a Merge ballot is about to be rejected with VoteNotForNextGeneration
ReportedGenerationsCase ==
    \E p \in Honest : \E v \in Deliverable(p) :
        /\ v.vote.ballot.tag = "Merge"
        /\ handle_vote(procs[p], v).err.kind = "VoteNotForNextGeneration"

\* votes signed by the faulty member in the name of every other key, member
\* or not, for every generation and every kind of ballot
Unsigned ==
    {ForgedVote(voter, f, Vote(g, b)) :
        voter \in Keys \ faulty, f \in faulty, g \in 0..(MaxGen + 1),
        b \in {Propose(Leave(2)), Merge({}), SuperMajority({})}}

\* C19: a vote whose signature does not verify is rejected with
\* InvalidSignature whatever its generation, its voter's membership and its
\* ballot, and the state is left as it was
SignatureFirst ==
    \A p \in Honest : \A v \in Deliverable(p) \cup Unsigned :
        ~ VerifySignature(v)
            => handle_vote(procs[p], v)
                  = [st |-> procs[p], out |-> <<>>, err |-> InvalidSignature]

\* a state that has decided a generation has been handed a vote whose
\* signature does not verify
SignatureFirstCase ==
    /\ last.op = "handle_vote"
    /\ last.err = InvalidSignature
    /\ procs[last.proc].gen >= 1

\* C20: a correctly signed vote for gen + 1 whose voter is not in the
\* receiver's members(gen) is rejected by handle_vote, and propose by a state
\* that is not in its own members(gen) is rejected, with VoteFromNonMember
\* carrying the voter and the receiver's members(gen); the state is left as
\* it was
NonMember ==
    \A p \in Honest :
        members(procs[p], procs[p].gen).err = Ok =>
            /\ \A v \in Deliverable(p) :
                  ( /\ VerifySignature(v)
                    /\ v.vote.gen = procs[p].gen + 1
                    /\ v.voter \notin CurrentMembers(procs[p]) )
                  => handle_vote(procs[p], v)
                        = [st |-> procs[p], out |-> <<>>,
                           err |-> VoteFromNonMember(v.voter, CurrentMembers(procs[p]))]
            /\ p \notin CurrentMembers(procs[p])
                  => \A r \in Reconfigs :
                        propose(procs[p], r)
                            = [st |-> procs[p], out |-> <<>>,
                               err |-> VoteFromNonMember(p, CurrentMembers(procs[p]))]

\* a member has been handed the vote of a state that is not a member
NonMemberCase ==
    /\ last.op = "handle_vote"
    /\ last.err.kind = "VoteFromNonMember"
    /\ last.err.voter \notin last.err.members
    /\ last.err.members = CurrentMembers(procs[last.proc])
    /\ last.proc \in last.err.members

\* a correctly signed vote for gen + 1 of a member, comparable with the vote
\* recorded for its voter
PassesOuterChecks(s, v) ==
    /\ VerifySignature(v)
    /\ members(s, s.gen).err = Ok
    /\ v.vote.gen = s.gen + 1
    /\ v.voter \in CurrentMembers(s)
    /\ \/ v.voter \notin DOMAIN s.votes
       \/ Supersedes(v, s.votes[v.voter])
       \/ Supersedes(s.votes[v.voter], v)

\* C21: in a round in progress, a vote that passes the checks of signature,
\* generation, membership and compatibility, and whose reconfigs together
\* with those of the recorded votes give one proposer two reconfigs, is
\* rejected with VoterChangedMind and the state is left as it was
ChangedMindRejected ==
    \A p \in Honest : \A v \in Deliverable(p) :
        ( /\ PassesOuterChecks(procs[p], v)
          /\ procs[p].pending_gen # procs[p].gen
          /\ \E a \in RoundReconfigs(procs[p], v) :
                \E b \in RoundReconfigs(procs[p], v) : a[1] = b[1] /\ a[2] # b[2] )
        => handle_vote(procs[p], v)
              = [st |-> procs[p], out |-> <<>>,
                 err |-> VoterChangedMind(RoundReconfigs(procs[p], v))]

\* a state in a round has been handed a ballot that carries a second
\* proposal of a voter
ChangedMindCase ==
    /\ last.op = "handle_vote"
    /\ last.err.kind = "VoterChangedMind"
    /\ procs[last.proc].pending_gen # procs[last.proc].gen

\* C22: a vote with a SuperMajority ballot is rejected when a nested vote is
\* dated differently from it, when the votes flattened from the ballot are
\* no super-majority, or when a nested vote fails validation itself
SuperMajorityValidated ==
    \A p \in Honest : \A v \in Deliverable(p) :
        ( /\ v.vote.ballot.tag = "SuperMajority"
          /\ \/ \E c \in v.vote.ballot.votes : c.vote.gen # v.vote.gen
             \/ ~ is_super_majority(procs[p],
                      UNION {UnpackVotes(c) : c \in v.vote.ballot.votes})
             \/ \E c \in v.vote.ballot.votes :
                    validate_signed_vote(procs[p], c) # Ok )
        => handle_vote(procs[p], v).err # Ok

\* a SuperMajority ballot with a nested vote that fails validation is about
\* to be accepted
SuperMajorityValidatedCase ==
    \E p \in Honest : \E v \in Deliverable(p) :
        /\ v.vote.ballot.tag = "SuperMajority"
        /\ \E c \in v.vote.ballot.votes : validate_signed_vote(procs[p], c) # Ok
        /\ handle_vote(procs[p], v).err = Ok

\* a Merge ballot that reaches validate_vote: it passes the checks of
\* validate_signed_vote that come before
ReachesMergeArm(s, v) ==
    /\ v.vote.ballot.tag = "Merge"
    /\ PassesOuterChecks(s, v)
    /\ s.pending_gen # s.gen => ~ ChangedMind(RoundReconfigs(s, v))

\* the nested votes of v that come first in the iteration among those in bad
FirstOf(bad) == {c \in bad : \A d \in bad : c.voter <= d.voter}

\* C23 as stated: a Merge ballot with a nested vote dated differently from
\* it is rejected with VoteNotForNextGeneration; otherwise every nested vote
\* is validated as a signed vote and the ballot is rejected with the error
\* of the first that fails
MergeValidated ==
    \A p \in Honest : \A v \in Deliverable(p) :
        ReachesMergeArm(procs[p], v) =>
            IF \E c \in v.vote.ballot.votes : c.vote.gen # v.vote.gen
            THEN handle_vote(procs[p], v).err.kind = "VoteNotForNextGeneration"
            ELSE IF \E c \in v.vote.ballot.votes :
                        validate_signed_vote(procs[p], c) # Ok
            THEN \E c \in FirstOf({d \in v.vote.ballot.votes :
                                      validate_signed_vote(procs[p], d) # Ok}) :
                    handle_vote(procs[p], v).err = validate_signed_vote(procs[p], c)
            ELSE handle_vote(procs[p], v).err = Ok

\* a nested vote is bad when it is dated differently from the ballot or
\* fails validation as a signed vote
BadChild(s, v, c) ==
    c.vote.gen # v.vote.gen \/ validate_signed_vote(s, c) # Ok

\* C23 amended: the nested votes are gone through in order, each compared
\* with the ballot's generation and then validated as a signed vote, and
\* the ballot is rejected with the first error met
MergeValidatedInOrder ==
    \A p \in Honest : \A v \in Deliverable(p) :
        ReachesMergeArm(procs[p], v) =>
            IF \E c \in v.vote.ballot.votes : BadChild(procs[p], v, c)
            THEN \E c \in FirstOf({d \in v.vote.ballot.votes :
                                      BadChild(procs[p], v, d)}) :
                    IF c.vote.gen # v.vote.gen
                    THEN handle_vote(procs[p], v).err.kind = "VoteNotForNextGeneration"
                    ELSE handle_vote(procs[p], v).err = validate_signed_vote(procs[p], c)
            ELSE handle_vote(procs[p], v).err = Ok

\* a Merge ballot whose first nested vote is badly signed and whose second
\* is dated differently has been rejected for the signature
MergeValidatedCase ==
    /\ last.op = "handle_vote"
    /\ last.err = InvalidSignature

\* out is what C24 states of s.anti_entropy(from_gen, peer): the history
\* entries after from_gen in ascending generation, then the recorded votes,
\* every one addressed to peer
AsStated(s, from_gen, peer, out) ==
    /\ Len(out) = Cardinality({g \in DOMAIN s.history : g > from_gen})
                     + Cardinality(DOMAIN s.votes)
    /\ \A i \in 1..Len(out) : out[i].dest = peer
    /\ \A g \in {h \in DOMAIN s.history : h > from_gen} :
          out[Cardinality({h \in DOMAIN s.history : h > from_gen /\ h <= g})].vote
              = s.history[g]
    /\ \A x \in DOMAIN s.votes :
          \E i \in (Cardinality({g \in DOMAIN s.history : g > from_gen}) + 1)..Len(out) :
              out[i].vote = s.votes[x]

\* the packets a step appended to the queue of j, as the messages returned
Appended(j) ==
    [i \in 1..(Len(packets'[j]) - Len(packets[j])) |->
        [vote |-> packets'[j][Len(packets[j]) + i].vote,
         dest |-> packets'[j][Len(packets[j]) + i].dest]]

ProposalOf(s, r) ==
    SignedVote(s.id, Signature(s.id, Vote(s.gen + 1, Propose(r))),
               Vote(s.gen + 1, Propose(r)))

\* out is one packet for every member of M and no other, each carrying v
OnePacketEach(out, M, v) ==
    /\ Len(out) = Cardinality(M)
    /\ {out[i].dest : i \in 1..Len(out)} = M
    /\ \A i \in 1..Len(out) : out[i].vote = v

\* C25 as stated: a propose call that succeeds in a state with gen = g sets
\* pending_gen to g + 1, records the signed vote for gen g + 1 under the
\* proposer and returns one packet carrying it for every member of
\* members(g)
ProposeCasts ==
    [][(last'.op = "propose" /\ last'.err = Ok)
          => \E r \in Reconfigs :
                /\ procs'[last'.proc].pending_gen = procs[last'.proc].gen + 1
                /\ procs'[last'.proc].gen = procs[last'.proc].gen
                /\ last'.proc \in DOMAIN procs'[last'.proc].votes
                /\ procs'[last'.proc].votes[last'.proc]
                      = ProposalOf(procs[last'.proc], r)
                /\ OnePacketEach(Appended(last'.proc),
                                 CurrentMembers(procs[last'.proc]),
                                 ProposalOf(procs[last'.proc], r))]_vars

\* C25 amended: a propose call that succeeds in a state with gen = g sets
\* pending_gen to g + 1, returns one packet carrying the signed vote for
\* gen g + 1 for every member of members(g), and records that vote under the
\* proposer unless the vote recorded there supersedes it, when votes stay
\* as they were
ProposeCastsOrKeeps ==
    [][(last'.op = "propose" /\ last'.err = Ok)
          => \E r \in Reconfigs :
                /\ procs'[last'.proc].pending_gen = procs[last'.proc].gen + 1
                /\ procs'[last'.proc].gen = procs[last'.proc].gen
                /\ last'.proc \in DOMAIN procs'[last'.proc].votes
                /\ IF /\ last'.proc \in DOMAIN procs[last'.proc].votes
                      /\ Supersedes(procs[last'.proc].votes[last'.proc],
                                    ProposalOf(procs[last'.proc], r))
                   THEN procs'[last'.proc].votes = procs[last'.proc].votes
                   ELSE procs'[last'.proc].votes[last'.proc]
                           = ProposalOf(procs[last'.proc], r)
                /\ OnePacketEach(Appended(last'.proc),
                                 CurrentMembers(procs[last'.proc]),
                                 ProposalOf(procs[last'.proc], r))]_vars

\* a member among several has proposed and holds its proposal as its vote
ProposeCastsCase ==
    /\ last.op = "propose"
    /\ last.err = Ok
    /\ last.sent >= 2
    /\ last.proc \in DOMAIN procs[last.proc].votes
    /\ procs[last.proc].votes[last.proc].vote.ballot.tag = "Propose"
    /\ procs[last.proc].pending_gen = procs[last.proc].gen + 1

\* the state of s once v is logged and pending_gen is set
AfterLogging(s, v) == [log_vote(s, v) EXCEPT !.pending_gen = v.vote.gen]

\* the members of s whose recorded vote is a SuperMajority ballot for the
\* winning reconfigs
DecidedVoters(s) ==
    {x \in CurrentMembers(s) \cap DOMAIN s.votes :
        /\ s.votes[x].vote.ballot.tag = "SuperMajority"
        /\ ReconfigSet(s.votes[x]) = resolve_votes(Values(s.votes))}

\* res is the decision of a member in the state s: a SuperMajority vote it
\* signed over its simplified votes is stored as history[pending_gen], votes
\* are emptied, gen is pending_gen, nothing is sent
IsDecision(s, res) ==
    /\ res.err = Ok
    /\ res.out = <<>>
    /\ res.st.gen = s.pending_gen
    /\ res.st.pending_gen = s.pending_gen
    /\ res.st.votes = EmptyMap
    /\ DOMAIN res.st.history = DOMAIN s.history \cup {s.pending_gen}
    /\ \A g \in DOMAIN s.history \ {s.pending_gen} : res.st.history[g] = s.history[g]
    /\ res.st.history[s.pending_gen].voter = s.id
    /\ VerifySignature(res.st.history[s.pending_gen])
    /\ res.st.history[s.pending_gen].vote
          = Vote(s.pending_gen, Simplify(SuperMajority(Values(s.votes))))

\* C26: when, after logging a vote, there is no split vote and more than
\* two thirds of members(gen) have SuperMajority ballots for the winning
\* reconfigs in votes, a state that is a member decides
DecisionStep ==
    \A p \in Honest : \A v \in Deliverable(p) :
        ( /\ validate_signed_vote(procs[p], v) = Ok
          /\ ~ is_split_vote(AfterLogging(procs[p], v),
                             Values(AfterLogging(procs[p], v).votes))
          /\ 3 * Cardinality(DecidedVoters(AfterLogging(procs[p], v)))
                > 2 * Cardinality(CurrentMembers(procs[p]))
          /\ p \in CurrentMembers(procs[p]) )
        => IsDecision(AfterLogging(procs[p], v), handle_vote(procs[p], v))

\* a member among several has decided on the votes of several voters
DecisionStepCase ==
    /\ last.op = "handle_vote"
    /\ last.err = Ok
    /\ last.sent = 0
    /\ procs[last.proc].gen >= 1
    /\ procs[last.proc].votes = EmptyMap
    /\ procs[last.proc].history[procs[last.proc].gen].voter = last.proc
    /\ Cardinality({w.voter :
           w \in UnpackVotes(procs[last.proc].history[procs[last.proc].gen])}) >= 2

\* C27: when one member has proposed a valid reconfig r among states that
\* agree on members(0) and hold no votes, and the packets are drained and
\* three rounds of anti-entropy among all pairs are over, every member is at
\* gen 1, its history[1] is a SuperMajority ballot (which carries the one
\* proposal made, of r), and its members(1) are members(0) with r applied
SingleProposalDecides ==
    sync.phase = "done" =>
        \A p \in members(procs[1], 0).val :
            /\ procs[p].gen = 1
            /\ procs[p].history[1].vote.ballot.tag = "SuperMajority"
            /\ \E r \in Reconfigs :
                  /\ ReconfigSet(procs[p].history[1]) = {r}
                  /\ members(procs[p], 1).err = Ok
                  /\ members(procs[p], 1).val
                        = IF r.kind = "Join"
                          THEN members(procs[p], 0).val \cup {r.actor}
                          ELSE members(procs[p], 0).val \ {r.actor}

\* the closing rounds are over after the proposal of one of several members
SingleProposalCase ==
    /\ sync.phase = "done"
    /\ Cardinality(members(procs[1], 0).val) >= 2
    /\ \A p \in members(procs[1], 0).val : procs[p].gen = 1

\* every member has proposed, the packets were drained, a round of
\* anti-entropy among all pairs was enqueued and drained
SplitDone ==
    /\ sync.phase = "drain"
    /\ \A source \in DOMAIN packets : packets[source] = <<>>

\* C28: after the concurrent proposals of all n members, the drain, the
\* round of anti-entropy and the drain, the n members are at one gen with
\* one member set of more than n members, and every state in that set
\* computes the same set
SplitVoteConverges ==
    SplitDone =>
        /\ Cardinality(CurrentMembers(procs[1])) > Cardinality(DOMAIN procs) \div 2
        /\ \A i \in 1..(Cardinality(DOMAIN procs) \div 2) :
              /\ procs[i].gen = procs[1].gen
              /\ members(procs[i], procs[i].gen) = members(procs[1], procs[1].gen)
        /\ \A m \in CurrentMembers(procs[1]) :
              members(procs[m], procs[m].gen) = members(procs[1], procs[1].gen)

\* two members have proposed two joins and all is drained
SplitVoteCase ==
    /\ SplitDone
    /\ Cardinality(DOMAIN procs) = 4
    /\ procs[1].gen >= 1

\* a state new to the network that trusts the members a trusted at first:
\* State::new with a's forced_reconfigs[0], gen 0 and no votes
Newcomer(a, c) ==
    [NewState(c) EXCEPT !.forced_reconfigs =
        [g \in DOMAIN a.forced_reconfigs \cap {0} |-> a.forced_reconfigs[g]]]

\* the newcomer after it has handled the packets of a.anti_entropy(0, c)
Onboarded(a, c) == Feed(Newcomer(a, c), anti_entropy(a, 0, c))

\* a has decided the generations 1..gen and has no vote pending
DecidedOnly(a) ==
    /\ a.gen >= 1
    /\ DOMAIN a.history = 1..a.gen
    /\ a.votes = EmptyMap

\* C29: a newcomer that handles, in order, the packets of A.anti_entropy(0,
\* C) of a state A that has decided 1..k and has no pending votes ends at
\* A's gen with A's members, whether or not it is one of them
OnboardingByReplay ==
    \A a \in Honest : DecidedOnly(procs[a]) =>
        \A c \in Keys :
            /\ Onboarded(procs[a], c).gen = procs[a].gen
            /\ members(Onboarded(procs[a], c), procs[a].gen)
                  = members(procs[a], procs[a].gen)

\* a state has decided two generations, and a key that is a member of none
\* of them can be onboarded
OnboardingCase ==
    \E a \in Honest :
        /\ DecidedOnly(procs[a])
        /\ procs[a].gen = 2
        /\ \E c \in Keys : \A g \in 0..2 : c \notin members(procs[a], g).val

\* a state that is no member has adopted a vote its members() rejects, and
\* a member that replays its history ends at its gen with members that
\* compute
OnboardingAtAdopted ==
    \E a \in Honest :
        /\ DecidedOnly(procs[a])
        /\ members(procs[a], procs[a].gen).err # Ok
        /\ \E c \in Keys :
              /\ Onboarded(procs[a], c).gen = procs[a].gen
              /\ members(Onboarded(procs[a], c), procs[a].gen).err = Ok

\* the reconfig shows in a member set: the actor of a Join is in it, the
\* actor of a Leave is not
Reflected(r, mem) ==
    IF r.kind = "Join" THEN r.actor \in mem ELSE r.actor \notin mem

\* the reconfig could be asked for in a member set
Applicable(r, mem) ==
    IF r.kind = "Join" THEN r.actor \notin mem ELSE r.actor \in mem

\* C30: of the reconfigs that successful propose calls asked for in
\* generation g, at least one is reflected in the members of g at every
\* state that has decided g, and each was applicable to the members of
\* g - 1 at every state that has decided g - 1
Validity ==
    \A g \in DOMAIN reconfigs_by_gen : \A p \in Honest :
        /\ procs[p].gen >= g - 1 =>
              \A r \in reconfigs_by_gen[g] :
                  Applicable(r, members(procs[p], g - 1).val)
        /\ procs[p].gen >= g =>
              \E r \in reconfigs_by_gen[g] :
                  Reflected(r, members(procs[p], g).val)

\* two reconfigs were proposed for a generation that a state has decided
ValidityCase ==
    \E g \in DOMAIN reconfigs_by_gen : \E p \in Honest :
        /\ Cardinality(reconfigs_by_gen[g]) >= 2
        /\ procs[p].gen >= g

\* the state computes an empty set of members for its generation
NoMembers(s) ==
    /\ members(s, s.gen).err = Ok
    /\ members(s, s.gen).val = {}

\* C31: at a state whose members(gen) is empty, is_split_vote,
\* is_super_majority and is_super_majority_over_super_majorities are false
\* for every set of votes, the non-empty ones included
EmptyMembersNoMajority ==
    \A p \in Honest : NoMembers(procs[p]) =>
        \A V \in SUBSET Values(procs[p].votes) :
            /\ ~is_split_vote(procs[p], V)
            /\ ~is_super_majority(procs[p], V)
            /\ ~is_super_majority_over_super_majorities(procs[p], V)

\* a state with no members holds a vote, and the split-vote test is false
\* of it
EmptyMembersCase ==
    \E p \in Honest :
        /\ NoMembers(procs[p])
        /\ procs[p].votes # EmptyMap
        /\ ~is_split_vote(procs[p], Values(procs[p].votes))
        /\ is_super_majority(procs[p], Values(procs[p].votes))

\* the members of s that are voters of votes in V carrying the reconfigs rs
MemberVoters(s, V, rs) ==
    {c.voter : c \in {x \in V : ReconfigSet(x) = rs}} \cap CurrentMembers(s)

\* more than 2/3 of the members of s are voters of votes in V that carry one
\* set of reconfigs
DistinctSuperMajority(s, V) ==
    \E rs \in {ReconfigSet(c) : c \in V} :
        3 * Cardinality(MemberVoters(s, V, rs)) > 2 * Cardinality(CurrentMembers(s))

\* C32: a vote with a SuperMajority ballot is accepted only if more than
\* 2/3 of the members of gen are distinct voters of votes of the ballot
\* that carry the same set of reconfigs
SuperMajorityOfMembers ==
    \A p \in Honest : \A v \in Deliverable(p) :
        ( /\ v.vote.ballot.tag = "SuperMajority"
          /\ handle_vote(procs[p], v).err = Ok )
        => DistinctSuperMajority(procs[p], Flattened(v))

\* a SuperMajority ballot in which one member alone votes is about to be
\* accepted by a state with two members
SuperMajorityOfOne ==
    \E p \in Honest : \E v \in Deliverable(p) :
        /\ v.vote.ballot.tag = "SuperMajority"
        /\ handle_vote(procs[p], v).err = Ok
        /\ {c.voter : c \in Flattened(v)} = {v.voter}
        /\ Cardinality(CurrentMembers(procs[p])) = 2

\* the Merge vote over the simplified votes of s, for pending_gen, that s
\* signs
MergeOf(s) ==
    SignedVote(s.id,
               Signature(s.id, Vote(s.pending_gen, Merge(simplify_votes(Values(s.votes))))),
               Vote(s.pending_gen, Merge(simplify_votes(Values(s.votes)))))

\* s has a vote of its own with the reconfigs of the Merge vote
VotedForMerge(s) ==
    /\ s.id \in DOMAIN s.votes
    /\ ReconfigSet(s.votes[s.id]) = ReconfigSet(MergeOf(s))

\* res records the Merge vote as the vote of s, leaves the other votes,
\* gen and history alone and carries one packet with it for every member
IsMergeCast(s, res) ==
    /\ res.err = Ok
    /\ DOMAIN res.st.votes = DOMAIN s.votes \cup {s.id}
    /\ res.st.votes[s.id] = MergeOf(s)
    /\ \A x \in DOMAIN s.votes \ {s.id} : res.st.votes[x] = s.votes[x]
    /\ res.st.gen = s.gen
    /\ res.st.pending_gen = s.pending_gen
    /\ res.st.history = s.history
    /\ OnePacketEach(res.out, CurrentMembers(s), MergeOf(s))

\* C33: when the votes are split once an accepted vote is logged,
\* handle_vote returns no packet and leaves the votes as logged if the
\* state's own vote has the reconfigs of the Merge of its simplified votes,
\* and otherwise records that Merge as its own vote and broadcasts it to
\* every member of members(gen); no other branch is looked at
SplitVoteBranch ==
    \A p \in Honest : \A v \in Deliverable(p) :
        ( /\ validate_signed_vote(procs[p], v) = Ok
          /\ is_split_vote(AfterLogging(procs[p], v),
                           Values(AfterLogging(procs[p], v).votes)) )
        => IF VotedForMerge(AfterLogging(procs[p], v))
           THEN handle_vote(procs[p], v)
                   = [st |-> AfterLogging(procs[p], v), out |-> <<>>, err |-> Ok]
           ELSE IsMergeCast(AfterLogging(procs[p], v), handle_vote(procs[p], v))

\* a state that has voted is about to see a split vote that its own vote
\* does not cover
SplitVoteBranchCase ==
    \E p \in Honest : \E v \in Deliverable(p) :
        /\ validate_signed_vote(procs[p], v) = Ok
        /\ is_split_vote(AfterLogging(procs[p], v),
                         Values(AfterLogging(procs[p], v).votes))
        /\ p \in DOMAIN procs[p].votes
        /\ ~ VotedForMerge(AfterLogging(procs[p], v))

\* the SuperMajority vote over the simplified votes of s, for pending_gen,
\* that s signs
SuperMajorityOf(s) ==
    SignedVote(s.id,
               Signature(s.id, Vote(s.pending_gen,
                                    SuperMajority(simplify_votes(Values(s.votes))))),
               Vote(s.pending_gen, SuperMajority(simplify_votes(Values(s.votes)))))

\* s has voted for a reconfig that is not among the winning reconfigs
VotedOutsideWinning(s) ==
    /\ s.id \in DOMAIN s.votes
    /\ \E r \in ReconfigSet(s.votes[s.id]) : r \notin resolve_votes(Values(s.votes))

\* the vote of s is a SuperMajority ballot already
VotedSuperMajority(s) ==
    /\ s.id \in DOMAIN s.votes
    /\ s.votes[s.id].vote.ballot.tag = "SuperMajority"

\* res records the SuperMajority vote as the vote of s, leaves the other
\* votes, gen and history alone and carries one packet with it for every
\* member
IsSuperMajorityCast(s, res) ==
    /\ res.err = Ok
    /\ DOMAIN res.st.votes = DOMAIN s.votes \cup {s.id}
    /\ res.st.votes[s.id] = SuperMajorityOf(s)
    /\ \A x \in DOMAIN s.votes \ {s.id} : res.st.votes[x] = s.votes[x]
    /\ res.st.gen = s.gen
    /\ res.st.pending_gen = s.pending_gen
    /\ res.st.history = s.history
    /\ OnePacketEach(res.out, CurrentMembers(s), SuperMajorityOf(s))

\* after logging, the votes are a super-majority, not split and not a
\* super-majority of SuperMajority ballots
SuperMajorityOnly(s) ==
    /\ ~ is_split_vote(s, Values(s.votes))
    /\ ~ is_super_majority_over_super_majorities(s, Values(s.votes))
    /\ is_super_majority(s, Values(s.votes))

\* C34: when a super-majority holds, and neither a split vote nor a
\* super-majority of SuperMajority ballots, the state casts a SuperMajority
\* ballot over its simplified votes and broadcasts it, unless it has voted
\* for reconfigs outside the winning ones or its vote is a SuperMajority
\* ballot already, when it returns no packet and keeps the votes as logged
SuperMajorityBranch ==
    \A p \in Honest : \A v \in Deliverable(p) :
        ( /\ validate_signed_vote(procs[p], v) = Ok
          /\ SuperMajorityOnly(AfterLogging(procs[p], v)) )
        => IF \/ VotedOutsideWinning(AfterLogging(procs[p], v))
              \/ VotedSuperMajority(AfterLogging(procs[p], v))
           THEN handle_vote(procs[p], v)
                   = [st |-> AfterLogging(procs[p], v), out |-> <<>>, err |-> Ok]
           ELSE IsSuperMajorityCast(AfterLogging(procs[p], v), handle_vote(procs[p], v))

\* a state among several members is about to cast its SuperMajority ballot
SuperMajorityBranchCase ==
    \E p \in Honest : \E v \in Deliverable(p) :
        /\ validate_signed_vote(procs[p], v) = Ok
        /\ SuperMajorityOnly(AfterLogging(procs[p], v))
        /\ Cardinality(CurrentMembers(procs[p])) >= 2
        /\ ~ VotedOutsideWinning(AfterLogging(procs[p], v))
        /\ ~ VotedSuperMajority(AfterLogging(procs[p], v))

\* a state that voted for a reconfig outside the winning ones is about to
\* see a super-majority, and keeps silent
SuperMajorityStall ==
    \E p \in Honest : \E v \in Deliverable(p) :
        /\ validate_signed_vote(procs[p], v) = Ok
        /\ SuperMajorityOnly(AfterLogging(procs[p], v))
        /\ VotedOutsideWinning(AfterLogging(procs[p], v))
        /\ handle_vote(procs[p], v).out = <<>>

\* the step from the state s to the state s2 keeps every recorded vote or
\* replaces it by one that supersedes it, unless it is a decision, which
\* moves gen and empties votes
VotesGrow(s, s2) ==
    IF s2.gen = s.gen
    THEN \A x \in DOMAIN s.votes :
            /\ x \in DOMAIN s2.votes
            /\ Supersedes(s2.votes[x], s.votes[x])
    ELSE /\ s2.gen \in DOMAIN s2.history \ DOMAIN s.history
         /\ s2.votes = EmptyMap

\* C35: within a generation the vote recorded for a voter changes only
\* from absent to a vote or from a vote to one that supersedes it; votes
\* are removed only by the decision, which removes them all
VotesOnlySuperseded ==
    [][\A p \in DOMAIN procs : VotesGrow(procs[p], procs'[p])]_vars

\* the vote recorded for a voter has replaced an earlier vote of that voter
VotesOnlySupersededCase ==
    /\ last.op = "handle_vote"
    /\ last.err = Ok
    /\ \E x \in DOMAIN procs[last.proc].votes :
          /\ procs[last.proc].votes[x].vote.ballot.tag # "Propose"
          /\ \E v \in UnpackVotes(procs[last.proc].votes[x]) :
                v.voter = x /\ v # procs[last.proc].votes[x]

\* simplifying b a second time changes nothing, and no vote of the
\* simplified ballot is superseded by another vote of it
SimplifiedOnce(b) ==
    /\ Simplify(Simplify(b)) = Simplify(b)
    /\ \A c \in Simplify(b).votes : \A d \in Simplify(b).votes :
          d # c => ~ Supersedes(d, c)

\* C36: for every Merge or SuperMajority ballot b, simplify(simplify(b)) =
\* simplify(b) and no child of simplify(b) is superseded by another child
\* of it; a Propose ballot is returned as it is
SimplifyIdempotent ==
    /\ \A r \in Reconfigs : Simplify(Propose(r)) = Propose(r)
    /\ \A p \in DOMAIN procs : \A V \in SUBSET Logged(procs[p]) :
          /\ SimplifiedOnce(Merge(V))
          /\ SimplifiedOnce(SuperMajority(V))

\* a state has logged votes of which simplify drops some and keeps several
SimplifyIdempotentCase ==
    \E p \in DOMAIN procs : \E V \in SUBSET Logged(procs[p]) :
        /\ Simplify(Merge(V)).votes # V
        /\ Cardinality(Simplify(Merge(V)).votes) >= 2

\* C37: in a run of honest states that starts with at most SOFT_MAX_MEMBERS
\* members and forces none later, every decided generation has at most
\* SOFT_MAX_MEMBERS members and votes holds at most SOFT_MAX_MEMBERS entries
CapacityBounds ==
    \A p \in Honest :
        /\ \A g \in 0..procs[p].gen :
              Cardinality(members(procs[p], g).val) <= SOFT_MAX_MEMBERS
        /\ Cardinality(DOMAIN procs[p].votes) <= SOFT_MAX_MEMBERS

\* a state that started with fewer than SOFT_MAX_MEMBERS members has
\* decided a generation with more
CapacityExceeded ==
    \E p \in Honest :
        /\ Cardinality(members(procs[p], 0).val) < SOFT_MAX_MEMBERS
        /\ procs[p].gen >= 1
        /\ members(procs[p], procs[p].gen).err = Ok
        /\ Cardinality(members(procs[p], procs[p].gen).val) > SOFT_MAX_MEMBERS

\* C38: among honest states every voter recorded in votes is a member of
\* members(gen), and a state that is no member of members(gen) records no
\* vote of its own and returns no packet from handle_vote
OnlyMembersVote ==
    \A p \in Honest :
        /\ DOMAIN procs[p].votes \subseteq CurrentMembers(procs[p])
        /\ p \notin CurrentMembers(procs[p]) =>
              /\ p \notin DOMAIN procs[p].votes
              /\ \A v \in Deliverable(p) : handle_vote(procs[p], v).out = <<>>

\* a state that is no member has recorded a vote that it signed, and has
\* sent it
NonMemberVoted ==
    /\ last.op = "handle_vote"
    /\ last.err = Ok
    /\ last.sent > 0
    /\ last.proc \notin CurrentMembers(procs[last.proc])
    /\ last.proc \in DOMAIN procs[last.proc].votes
    /\ VerifySignature(procs[last.proc].votes[last.proc])

\* the fields a forced change must leave alone, and the forced reconfigs of
\* the current generation never holding Join(a) together with Leave(a)
ForcedLeavesRest(s, s2) ==
    /\ s2.gen = s.gen
    /\ s2.pending_gen = s.pending_gen
    /\ s2.votes = s.votes
    /\ s2.history = s.history
    /\ \A a \in DOMAIN procs :
          ~ {Join(a), Leave(a)} \subseteq s2.forced_reconfigs[s2.gen]

\* C39: at any generation, decided ones included, a is in members(gen)
\* right after force_join(a) and not in members(gen) right after
\* force_leave(a); both calls leave gen, pending_gen, votes and history
\* unchanged and never leave Join(a) and Leave(a) together in
\* forced_reconfigs[gen]
ForceTakesEffect ==
    [][\A p \in DOMAIN procs, a \in DOMAIN procs :
          /\ (last'.op = "force_join" /\ last'.proc = p
                  /\ procs'[p] = force_join(procs[p], a)) =>
                /\ a \in CurrentMembers(procs'[p])
                /\ ForcedLeavesRest(procs[p], procs'[p])
          /\ (last'.op = "force_leave" /\ last'.proc = p
                  /\ procs'[p] = force_leave(procs[p], a)) =>
                /\ a \notin CurrentMembers(procs'[p])
                /\ ForcedLeavesRest(procs[p], procs'[p])]_vars

\* the calls leave every field but forced_reconfigs alone and keep the forced
\* reconfigs of the generation free of a Join and a Leave of one actor
ForceLeavesRest ==
    [][\A p \in DOMAIN procs :
          (last'.op \in {"force_join", "force_leave"} /\ last'.proc = p) =>
              ForcedLeavesRest(procs[p], procs'[p])]_vars

\* a forced leave at a decided generation whose decision joined the actor:
\* the actor is still a member
ForcedLeaveWithoutEffect ==
    /\ last.op = "force_leave"
    /\ procs[last.proc].gen > 0
    /\ \E a \in DOMAIN procs :
          /\ Leave(a) \in procs[last.proc].forced_reconfigs[procs[last.proc].gen]
          /\ a \in CurrentMembers(procs[last.proc])

\* the (voter, reconfig) pairs of all the votes recorded by s
RecordedReconfigs(s) == UNION {VoteReconfigs(v) : v \in Values(s.votes)}

\* C40: the reconfigs() of the votes recorded in votes give each proposing
\* voter at most one reconfig, also for the first vote accepted in a fresh
\* round and for votes nested inside Merge and SuperMajority ballots
OneReconfigPerVoter ==
    \A p \in Honest :
        \A a \in RecordedReconfigs(procs[p]) :
            \A b \in RecordedReconfigs(procs[p]) : a[1] = b[1] => a[2] = b[2]

\* the first vote of a round has been accepted, a Merge ballot, and the
\* recorded votes give its voter two reconfigs
TwoReconfigsRecorded ==
    /\ last.op = "handle_vote"
    /\ last.err = Ok
    /\ \E v \in Values(procs[last.proc].votes) :
          /\ v.vote.ballot.tag = "Merge"
          /\ \E a \in VoteReconfigs(v) :
                \E b \in VoteReconfigs(v) : a[1] = b[1] /\ a[2] # b[2]

====
